---- MODULE Spec2Model ----
(***************************************************************************)
(* State machine of the eWeLink realtime client: the reconnect loop of     *)
(* EWeLinkWebSocketClient, the pending-request table behind                *)
(* control_device, the inbound frame handler and the coordinator's device  *)
(* state store.                                                            *)
(***************************************************************************)
EXTENDS Integers, Sequences, FiniteSets, TLC

(* ---------------------------------------------------------------------- *)
(* Bounds of the model                                                     *)
(* ---------------------------------------------------------------------- *)
\* number of control_device invocations explored
MaxCalls == 2
\* last value of the millisecond clock; now_timestamp() reads the clock
MaxClock == 2
\* the 10 s of wait_for, in clock ticks
TimeoutTicks == 1
\* the longest backoff delay slept while commands and frames are explored
CmdDelayBound == 5
\* the messages of the read loop that read_log records
ReadLogBound == 2
\* the snapshots of one store operation that published records
PublishLogBound == 2
\* number of stop() calls explored
MaxStops == 2

(* ---------------------------------------------------------------------- *)
(* Program constants                                                       *)
(* ---------------------------------------------------------------------- *)
InitialDelay == 5
DelayStep == 5
MaxDelay == 60
ErrTimeout == 408
ErrNotConnected == -1
ErrRemote == 400
UiidSwitch == 1
UiidButton == 174
\* range(4): the relays of the multi-channel switch payload
RelayCount == 4

Min(a, b) == IF a < b THEN a ELSE b

(* ---------------------------------------------------------------------- *)
(* Attribute trees (python dicts and scalars)                              *)
(* ---------------------------------------------------------------------- *)
Str(s) == [t |-> "str", s |-> s]
Num(n) == [t |-> "num", n |-> n]
Bool(b) == [t |-> "bool", b |-> b]
Map(f) == [t |-> "map", m |-> f]
NoneV == [t |-> "none"]
EmptyMap == Map(<<>>)
\* a python list
List(l) == [t |-> "list", l |-> l]

IsMap(v) == v.t = "map"
IsNumber(v) == v.t = "num"
Has(v, k) == IsMap(v) /\ k \in DOMAIN v.m

\* deep_get(obj, path, default)
RECURSIVE deep_get(_, _, _)
deep_get(obj, path, default) ==
    IF path = <<>> THEN obj
    ELSE IF Has(obj, Head(path))
         THEN deep_get(obj.m[Head(path)], Tail(path), default)
         ELSE default

\* mutant: the result has the keys of the source only
merge_SourceOnly(origin, source) == source

\* mutant: a value merged over an equal value is lost
merge_Toggles(origin, source) ==
    [k \in DOMAIN origin \cup DOMAIN source |->
        IF k \in DOMAIN source
        THEN IF k \in DOMAIN origin /\ origin[k] = source[k]
             THEN NoneV ELSE source[k]
        ELSE origin[k]]

\* mutant: a map of the source replaces the map of the origin
merge_Shallow(origin, source) ==
    [k \in DOMAIN origin \cup DOMAIN source |->
        IF k \in DOMAIN source THEN source[k] ELSE origin[k]]

\* mutant: a value of the origin that is not a map is kept
merge_KeepsOrigin(origin, source) ==
    [k \in DOMAIN origin \cup DOMAIN source |->
        IF k \in DOMAIN origin
        THEN IF k \in DOMAIN source /\ IsMap(origin[k])
             THEN source[k] ELSE origin[k]
        ELSE source[k]]

\* merge(origin_dict, source_dict) on the maps' key functions
RECURSIVE merge(_, _)
merge(origin, source) ==
    [k \in DOMAIN origin \cup DOMAIN source |->
        IF k \in DOMAIN source
        THEN IF k \in DOMAIN origin /\ IsMap(origin[k]) /\ IsMap(source[k])
             THEN Map(merge(origin[k].m, source[k].m))
             ELSE source[k]
        ELSE origin[k]]

\* bool(value): the truth value of a python object
bool(v) ==
    IF v.t = "bool" THEN v
    ELSE IF v.t = "none" THEN Bool(FALSE)
    ELSE IF v.t = "num" THEN Bool(v.n # 0)
    ELSE IF v.t = "str" THEN Bool(v.s # "")
    ELSE IF v.t = "list" THEN Bool(v.l # <<>>)
    ELSE Bool(DOMAIN v.m # {})

get_device_uiid(device) == deep_get(device, <<"itemData", "extra", "uiid">>, NoneV)

\* gen_event_callback_key(device_id, outlet)
gen_event_callback_key(device_id, outlet) == <<"event", device_id, outlet>>

(* ---------------------------------------------------------------------- *)
(* Devices, commands and frames explored                                   *)
(* ---------------------------------------------------------------------- *)
Calls == 1..MaxCalls
NoSeq == -1
NoDevice == "none"
DevIds == {"d1", "d2", "d3"}
UnknownDev == "dx"

SwitchParams(v) == Map([switch |-> Str(v)])
ButtonParams(o, k) == Map([outlet |-> Num(o), key |-> Num(k)])
OnlineParams(b) == Map([online |-> Bool(b)])

NewDevice(id, uiid, params) ==
    Map([itemData |-> Map([deviceid |-> Str(id),
                           apikey |-> Str("k"),
                           online |-> Bool(TRUE),
                           params |-> params,
                           extra |-> Map([uiid |-> Num(uiid)])])])

\* the device set that get_all_devices() returns at the first refresh
Inventory ==
    [d \in DevIds |->
        IF d = "d1" THEN NewDevice("d1", UiidSwitch, SwitchParams("off"))
                    ELSE NewDevice(d, UiidButton, EmptyMap)]

CommandParams == {SwitchParams("on")}

\* an inbound websocket TEXT message: its text is a JSON object ("object"),
\* another JSON value ("scalar") or not JSON at all ("malformed")
Frame(text, seq, act, dev, par, err) ==
    [text |-> text, sequence |-> seq, action |-> act,
     deviceid |-> dev, params |-> par, error |-> err]

\* the frame has no "error" member
NoError == -2

NoFrame == Frame("none", NoSeq, "none", NoDevice, NoneV, NoError)

\* replies of the remote service to a command
AckFrames(seqs) ==
    {Frame("object", s, "none", "d1", NoneV, e) : s \in seqs, e \in {0, ErrRemote}}

\* state pushes, with or without a sequence member
PushFrames(seqs) ==
    {Frame("object", s, "update", "d1", SwitchParams("on"), NoError) :
        s \in seqs \cup {NoSeq}}
    \cup {Frame("object", NoSeq, "update", "d1", SwitchParams("off"), NoError),
          Frame("object", NoSeq, "update", "d2", ButtonParams(0, 1), NoError),
          Frame("object", NoSeq, "update", UnknownDev, SwitchParams("on"), NoError)}

\* availability pushes
SysFrames ==
    {Frame("object", NoSeq, "sysmsg", d, OnlineParams(b), NoError) :
        d \in {"d1", UnknownDev}, b \in BOOLEAN}

BadFrames ==
    {Frame("malformed", NoSeq, "none", NoDevice, NoneV, NoError),
     Frame("scalar", NoSeq, "none", NoDevice, NoneV, NoError)}

Frames(seqs) == AckFrames(seqs) \cup PushFrames(seqs) \cup SysFrames \cup BadFrames

\* key presses of the button device d2
ButtonFrames ==
    {Frame("object", NoSeq, "update", "d2", ButtonParams(o, k), NoError) :
        o \in {0, 2}, k \in {1, 7}}

\* the frames explored together with the store and the subscriptions
StoreFrames(seqs) ==
    {Frame("object", s, "none", "d1", NoneV, 0) : s \in seqs}
    \cup ButtonFrames \cup SysFrames \cup BadFrames
    \cup {Frame("object", NoSeq, "update", "d1", SwitchParams("on"), NoError),
          Frame("object", NoSeq, "sysmsg", "d1", Map([online |-> Num(0)]), NoError)}

\* the frames explored together with the command path
CmdFrames(seqs) ==
    AckFrames(seqs) \cup BadFrames
    \cup {Frame("object", s, "update", "d1", SwitchParams("on"), NoError) :
            s \in seqs \cup {NoSeq}}

(* ---------------------------------------------------------------------- *)
(* State                                                                   *)
(* ---------------------------------------------------------------------- *)
VARIABLES
    hass_task,              \* position of the connect_and_reconnect task
    cancel_requested,       \* hass_task.cancel() called, CancelledError pending
    stop_event,             \* __stop_event
    is_connected,           \* __is_connected
    ws,                     \* __ws and the state of its socket
    reconnect_delay_time,   \* __reconnect_delay_time
    wire,                   \* frames written to the socket now held in __ws
    last_wait,              \* the last backoff wait slept (0: none yet)
    cycle_connected,        \* the socket connect of this loop iteration succeeded
    task_exception,         \* the exception that ended the task ("none": none)
    stop_call,              \* the stop() calls made so far, each with its outcome
    delay_bound,            \* exploration bound: no backoff wait longer than this
    pending_responses,      \* __pending_responses: sequence -> future (call)
    now,                    \* the millisecond clock
    call,                   \* the control_device invocations
    coordinator_handler,    \* __coordinator_handler is set
    data,                   \* coordinator.data: device id -> device tree
    event_handler_map,      \* coordinator.event_handler_map (its keys)
    last_event,             \* event entity: handler key -> last event fired
    late_reply_seen,        \* a frame arrived bearing the id of a timed-out call
    read_bound,             \* exploration bound: the messages logged in read_log
    publish_bound,          \* exploration bound: the snapshots logged in published
    read_log,               \* the first TEXT messages the read loop handled
    invoked,                \* subscriptions called while the last frame was handled
    published,              \* snapshots published by the last store operation
    uiid_instance_dict,     \* uiid_instance_dict: family id -> adapter instance
    origin_dict,            \* a tree that merge() is applied to
    adapter_out,            \* the outcome of the last adapter operation
    api                     \* the REST client and the outcome of the last refresh

connVars == <<hass_task, cancel_requested, stop_event, is_connected, ws,
              reconnect_delay_time, wire, last_wait, cycle_connected,
              task_exception, delay_bound, read_bound, publish_bound,
              stop_call>>
cmdVars == <<pending_responses, now, call, late_reply_seen, read_log>>
libVars == <<origin_dict, adapter_out, api>>
storeVars == <<coordinator_handler, data, event_handler_map, last_event,
               invoked, published, uiid_instance_dict, libVars>>
vars == <<connVars, cmdVars, storeVars>>

NoResult == [kind |-> "none", error |-> 0, sequence |-> NoSeq, msg |-> ""]
Ack(err, seq, msg) == [kind |-> "ack", error |-> err, sequence |-> seq, msg |-> msg]
Raised == [kind |-> "raised", error |-> 0, sequence |-> NoSeq, msg |-> ""]
Absent == [kind |-> "absent", error |-> 0, sequence |-> NoSeq, msg |-> ""]

\* no adapter operation has run yet
NoOutcome == [op |-> "none", uiid |-> 0, arg |-> NoneV, value |-> NoneV,
              raised |-> "none"]

IdleCall ==
    [pc |-> "idle", sequence |-> NoSeq, fut |-> "none", reply |-> NoFrame,
     deadline |-> 0, device |-> NoDevice, params |-> NoneV, result |-> NoResult]

\* EWeLinkApiClient.__init__: no family and no device known, no refresh yet
NewApiClient ==
    [family_list |-> {}, device_dict |-> {}, family |-> [kind |-> "none", error |-> 0, list |-> {}],
     things |-> <<>>, outcome |-> "none"]

\* the state after the constructors of the client and of the coordinator
Constructed ==
    /\ hass_task = "none"
    /\ cancel_requested = FALSE
    /\ stop_event = FALSE
    /\ is_connected = FALSE
    /\ ws = "none"
    /\ reconnect_delay_time = InitialDelay
    /\ wire = <<>>
    /\ last_wait = 0
    /\ cycle_connected = FALSE
    /\ task_exception = "none"
    /\ late_reply_seen = FALSE
    /\ pending_responses = <<>>
    /\ now = 0
    /\ call = [c \in Calls |-> IdleCall]
    /\ coordinator_handler = FALSE
    /\ data = <<>>
    /\ event_handler_map = {}
    /\ last_event = <<>>
    /\ read_log = <<>>
    /\ invoked = <<>>
    /\ published = <<>>
    /\ stop_call = <<>>
    /\ uiid_instance_dict = <<>>
    /\ adapter_out = NoOutcome
    /\ api = NewApiClient

Init ==
    /\ Constructed
    /\ delay_bound = CmdDelayBound
    /\ read_bound = 0
    /\ publish_bound = 0
    /\ origin_dict = EmptyMap

(* ---------------------------------------------------------------------- *)
(* Connection manager: start, connect_and_reconnect, stop                  *)
(* ---------------------------------------------------------------------- *)
LiveTask == {"created", "resolving", "connecting", "announce", "reading", "backoff"}
InSession == {"announce", "reading"}

\* start(): create the background task
Start ==
    /\ hass_task = "none"
    /\ hass_task' = "created"
    /\ UNCHANGED <<cancel_requested, stop_event, is_connected, ws,
                   reconnect_delay_time, wire, last_wait, cycle_connected,
                   task_exception, delay_bound, read_bound,
                   publish_bound, stop_call>>
    /\ UNCHANGED <<cmdVars, storeVars>>

\* `while not stop_event.is_set(): is_connected = False; await get_ws_address()`
LoopTop ==
    IF stop_event
    THEN /\ hass_task' = "finished"
         /\ UNCHANGED <<is_connected, cycle_connected>>
    ELSE /\ hass_task' = "resolving"
         /\ is_connected' = FALSE
         /\ cycle_connected' = FALSE

\* first step of connect_and_reconnect
TaskBegin ==
    /\ hass_task = "created"
    /\ ~cancel_requested
    /\ reconnect_delay_time' = InitialDelay
    /\ LoopTop
    /\ UNCHANGED <<cancel_requested, stop_event, ws, wire, last_wait,
                   task_exception, delay_bound, read_bound,
                   publish_bound, stop_call>>
    /\ UNCHANGED <<cmdVars, storeVars>>

\* after the try statement: stop check, then `await asyncio.sleep(delay)`
AfterCycle ==
    /\ IF stop_event
       THEN /\ hass_task' = "finished"
            /\ UNCHANGED last_wait
       ELSE /\ reconnect_delay_time <= delay_bound
            /\ hass_task' = "backoff"
            /\ last_wait' = reconnect_delay_time
    /\ UNCHANGED task_exception

\* an exception that no except clause of the loop catches ends the task
TaskFails(exception) ==
    /\ hass_task' = "failed"
    /\ task_exception' = exception
    /\ UNCHANGED last_wait

\* __get_ws_address() returned the realtime endpoint
ResolveOk ==
    /\ hass_task = "resolving"
    /\ ~cancel_requested
    /\ hass_task' = "connecting"
    /\ UNCHANGED <<cancel_requested, stop_event, is_connected, ws,
                   reconnect_delay_time, wire, last_wait, cycle_connected,
                   task_exception, delay_bound, read_bound,
                   publish_bound, stop_call>>
    /\ UNCHANGED <<cmdVars, storeVars>>

ResolveFailures == {"timeout", "client_error", "error_code"}

\* the exceptions of __get_ws_address() that the loop catches: TimeoutError
\* and aiohttp.ClientError; EWeLinkApiError (non-zero error in the reply of
\* the dispatch service) is a plain Exception
ResolveCaught(kind) == kind \in {"timeout", "client_error"}

\* __get_ws_address() raised
ResolveFail(kind) ==
    /\ hass_task = "resolving"
    /\ ~cancel_requested
    /\ IF ResolveCaught(kind) THEN AfterCycle ELSE TaskFails("EWeLinkApiError")
    /\ UNCHANGED <<cancel_requested, stop_event, is_connected, ws,
                   reconnect_delay_time, wire, cycle_connected, delay_bound, read_bound,
                   publish_bound, stop_call>>
    /\ UNCHANGED <<cmdVars, storeVars>>

UserOnline == [action |-> "userOnline", sequence |-> NoSeq]

\* mutant: the flag is raised and the task suspended before the announce
\* frame is written
ConnectOkAnnouncesLater ==
    /\ hass_task = "connecting"
    /\ ~cancel_requested
    /\ is_connected' = TRUE
    /\ ws' = "open"
    /\ wire' = <<>>
    /\ cycle_connected' = TRUE
    /\ hass_task' = "announce"
    /\ UNCHANGED <<cancel_requested, stop_event, reconnect_delay_time, last_wait,
                   task_exception, delay_bound, read_bound,
                   publish_bound, stop_call>>
    /\ UNCHANGED <<cmdVars, storeVars>>

\* lines 134-138: session.ws_connect() succeeded and the body of the
\* `async with` runs to its first await: the flag is set, the socket is
\* stored and ws.send_json is called with the announce, which hands the
\* frame to the new socket before the task is suspended in the send
ConnectOk ==
    /\ hass_task = "connecting"
    /\ ~cancel_requested
    /\ is_connected' = TRUE
    /\ ws' = "open"
    /\ wire' = <<UserOnline>>
    /\ cycle_connected' = TRUE
    /\ hass_task' = "announce"
    /\ UNCHANGED <<cancel_requested, stop_event, reconnect_delay_time, last_wait,
                   task_exception, delay_bound, read_bound,
                   publish_bound, stop_call>>
    /\ UNCHANGED <<cmdVars, storeVars>>

ConnectFailures == {"handshake", "refused", "timeout", "client_error"}

\* session.ws_connect() raised one of the exceptions the loop catches
ConnectFail(kind) ==
    /\ hass_task = "connecting"
    /\ ~cancel_requested
    /\ AfterCycle
    /\ UNCHANGED <<cancel_requested, stop_event, is_connected, ws,
                   reconnect_delay_time, wire, cycle_connected, delay_bound, read_bound,
                   publish_bound, stop_call>>
    /\ UNCHANGED <<cmdVars, storeVars>>

\* `await ws.send_json({"action": "userOnline", ...})` returned: the read
\* loop begins
AnnounceOk ==
    /\ hass_task = "announce"
    /\ ~cancel_requested
    /\ ws \in {"open", "dropped"}
    /\ hass_task' = "reading"
    /\ UNCHANGED <<cancel_requested, stop_event, is_connected, ws,
                   reconnect_delay_time, wire, last_wait, cycle_connected,
                   task_exception, delay_bound, read_bound,
                   publish_bound, stop_call>>
    /\ UNCHANGED <<cmdVars, storeVars>>

\* the announce fails on a socket that already dropped; the `async with`
\* closes the socket and line 169 is skipped.  The exception is caught by
\* the loop when it is an aiohttp.ClientError and ends the task otherwise.
AnnounceFail(caught) ==
    /\ hass_task = "announce"
    /\ ~cancel_requested
    /\ ws = "dropped"
    /\ ws' = "closed"
    /\ IF caught THEN AfterCycle ELSE TaskFails("ConnectionResetError")
    /\ UNCHANGED <<cancel_requested, stop_event, is_connected,
                   reconnect_delay_time, wire, cycle_connected, delay_bound, read_bound,
                   publish_bound, stop_call>>
    /\ UNCHANGED <<cmdVars, storeVars>>

\* the peer or the network drops the socket; the read loop has not seen it
SocketDrop ==
    /\ hass_task \in InSession
    /\ ws = "open"
    /\ ws' = "dropped"
    /\ UNCHANGED <<hass_task, cancel_requested, stop_event, is_connected,
                   reconnect_delay_time, wire, last_wait, cycle_connected,
                   task_exception, delay_bound, read_bound,
                   publish_bound, stop_call>>
    /\ UNCHANGED <<cmdVars, storeVars>>

SessionEnds == {"closed", "error"}

\* line 169, after the `async with`: the flag is cleared
SessionClosed == FALSE

\* mutant: the end of the session marks every device offline
SessionEndMarksOffline(kind) ==
    /\ hass_task = "reading"
    /\ ~cancel_requested
    /\ ws \in {"open", "dropped"}
    /\ ws' = "closed"
    /\ is_connected' = SessionClosed
    /\ AfterCycle
    /\ data' = [d \in DOMAIN data |->
                    [data[d] EXCEPT !.m.itemData.m.online = Bool(FALSE)]]
    /\ UNCHANGED <<cancel_requested, stop_event, reconnect_delay_time, wire,
                   cycle_connected, delay_bound, read_bound,
                   publish_bound, stop_call>>
    /\ UNCHANGED <<cmdVars, coordinator_handler, event_handler_map,
                   last_event, invoked, published, uiid_instance_dict, libVars>>

\* mutant: the end of the session drops the table of pending requests
SessionEndDropsPending(kind) ==
    /\ hass_task = "reading"
    /\ ~cancel_requested
    /\ ws \in {"open", "dropped"}
    /\ ws' = "closed"
    /\ is_connected' = SessionClosed
    /\ AfterCycle
    /\ pending_responses' = <<>>
    /\ UNCHANGED <<cancel_requested, stop_event, reconnect_delay_time, wire,
                   cycle_connected, delay_bound, read_bound,
                   publish_bound, stop_call>>
    /\ UNCHANGED <<now, call, late_reply_seen, read_log, storeVars>>

\* the read loop ends on a close or on an ERROR message; the `async with`
\* closes the socket, line 169 clears the flag
SessionEnd(kind) ==
    /\ hass_task = "reading"
    /\ ~cancel_requested
    /\ ws \in {"open", "dropped"}
    /\ ws' = "closed"
    /\ is_connected' = SessionClosed
    /\ AfterCycle
    /\ UNCHANGED <<cancel_requested, stop_event, reconnect_delay_time, wire,
                   cycle_connected, delay_bound, read_bound,
                   publish_bound, stop_call>>
    /\ UNCHANGED <<cmdVars, storeVars>>

\* mutant: the delay grows without the cap
NextDelayUncapped(delay) == delay + DelayStep

\* line 185: the delay after a wait
NextDelay(delay) == Min(MaxDelay, delay + DelayStep)

\* mutant: the delay is reset when a new attempt begins
BackoffDoneResets ==
    /\ hass_task = "backoff"
    /\ ~cancel_requested
    /\ reconnect_delay_time' = InitialDelay
    /\ LoopTop
    /\ UNCHANGED <<cancel_requested, stop_event, ws, wire, last_wait,
                   task_exception, delay_bound, read_bound,
                   publish_bound, stop_call>>
    /\ UNCHANGED <<cmdVars, storeVars>>

\* asyncio.sleep(delay) returned: grow the delay, back to the loop test
BackoffDone ==
    /\ hass_task = "backoff"
    /\ ~cancel_requested
    /\ reconnect_delay_time' = NextDelay(reconnect_delay_time)
    /\ LoopTop
    /\ UNCHANGED <<cancel_requested, stop_event, ws, wire, last_wait,
                   task_exception, delay_bound, read_bound,
                   publish_bound, stop_call>>
    /\ UNCHANGED <<cmdVars, storeVars>>

\* mutant: stop() sets the event and leaves the task alone
StopWithoutCancel ==
    /\ ~stop_event
    /\ stop_event' = TRUE
    /\ stop_call' = Append(stop_call, "returned")
    /\ UNCHANGED <<hass_task, cancel_requested, is_connected, ws,
                   reconnect_delay_time, wire, last_wait, cycle_connected,
                   task_exception, delay_bound, read_bound, publish_bound>>
    /\ UNCHANGED <<cmdVars, storeVars>>

\* lines 198-203 of stop() for a task at the given position: a live task is
\* cancelled and awaited; no task, a finished task and a cancelled task (its
\* CancelledError is caught) let stop() return; the exception of a task that
\* failed is raised again by the await and leaves stop()
StopOutcome(task) ==
    IF task \in LiveTask THEN "awaiting"
    ELSE IF task = "failed" THEN "raised"
    ELSE "returned"

\* stop(): set the stop event, cancel the task and await it
Stop ==
    /\ ~stop_event
    /\ stop_event' = TRUE
    /\ cancel_requested' = (hass_task \in LiveTask)
    /\ stop_call' = Append(stop_call, StopOutcome(hass_task))
    /\ UNCHANGED <<hass_task, is_connected, ws, reconnect_delay_time, wire,
                   last_wait, cycle_connected, task_exception, delay_bound,
                   read_bound, publish_bound>>
    /\ UNCHANGED <<cmdVars, storeVars>>

\* a further stop(): the entry's unload listener and async_unload_entry both
\* call it
StopAgain ==
    /\ stop_event
    /\ Len(stop_call) < MaxStops
    /\ cancel_requested' = (hass_task \in LiveTask)
    /\ stop_call' = Append(stop_call, StopOutcome(hass_task))
    /\ UNCHANGED <<hass_task, stop_event, is_connected, ws,
                   reconnect_delay_time, wire, last_wait, cycle_connected,
                   task_exception, delay_bound, read_bound, publish_bound>>
    /\ UNCHANGED <<cmdVars, storeVars>>

\* CancelledError is raised at the await the task is suspended in; inside a
\* session the `async with` closes the socket on the way out; the stop()
\* calls that await the task resume with the CancelledError, which they catch
TaskCancelled ==
    /\ cancel_requested
    /\ hass_task \in LiveTask
    /\ hass_task' = "cancelled"
    /\ cancel_requested' = FALSE
    /\ ws' = IF hass_task \in InSession THEN "closed" ELSE ws
    /\ stop_call' = [i \in DOMAIN stop_call |->
                        IF stop_call[i] = "awaiting" THEN "returned"
                        ELSE stop_call[i]]
    /\ UNCHANGED <<stop_event, is_connected, reconnect_delay_time, wire,
                   last_wait, cycle_connected, task_exception, delay_bound,
                   read_bound, publish_bound>>
    /\ UNCHANGED <<cmdVars, storeVars>>

(* ---------------------------------------------------------------------- *)
(* Capability registry: get_uiid_instance and the base adapter Uiid        *)
(* ---------------------------------------------------------------------- *)
\* uiid_dict: the adapter class registered for a family id
uiid_dict ==
    (1 :> "Uiid1") @@ (104 :> "Uiid104") @@ (174 :> "Uiid174")
    @@ (191 :> "Uiid191") @@ (7003 :> "Uiid7003") @@ (7014 :> "Uiid7014")
    @@ (7016 :> "Uiid7016")

\* UiidClass(uiid): every registered class sets its own family id, the base
\* class keeps the id it is given
NewInstance(uiid) ==
    IF uiid \in DOMAIN uiid_dict
    THEN [class |-> uiid_dict[uiid], uiid |-> uiid]
    ELSE [class |-> "Uiid", uiid |-> uiid]

\* mutant: a stored adapter is handed out as the base adapter
get_uiid_instance_ForgetsClass(memo, uiid) ==
    IF uiid \in DOMAIN memo
    THEN [instance |-> [class |-> "Uiid", uiid |-> uiid], memo |-> memo]
    ELSE [instance |-> NewInstance(uiid),
          memo |-> [u \in DOMAIN memo \cup {uiid} |->
                       IF u = uiid THEN NewInstance(uiid) ELSE memo[u]]]

\* get_uiid_instance(uiid): the instance returned and the memo afterwards
get_uiid_instance(memo, uiid) ==
    IF uiid \in DOMAIN memo
    THEN [instance |-> memo[uiid], memo |-> memo]
    ELSE [instance |-> NewInstance(uiid),
          memo |-> [u \in DOMAIN memo \cup {uiid} |->
                       IF u = uiid THEN NewInstance(uiid) ELSE memo[u]]]

\* the memo after get_uiid_instance was called for the ids of `uiids`, a set
\* of at most one id
Memoize(memo, uiids) ==
    IF uiids = {} THEN memo
    ELSE get_uiid_instance(memo, CHOOSE u \in uiids : TRUE).memo

MULTIPLE_SINGLE_PROTOCOL_UIIDS == {191}

\* mutant: every relay of the array gets the target state
gen_control_switch_params_AllRelays(instance, is_on) ==
    IF instance.uiid \in MULTIPLE_SINGLE_PROTOCOL_UIIDS
    THEN Map([switches |-> List([i \in 1..RelayCount |->
                 Map([switch |-> Str(IF is_on THEN "on" ELSE "off"),
                      outlet |-> Num(i - 1)])])])
    ELSE SwitchParams(IF is_on THEN "on" ELSE "off")

\* Uiid.gen_control_switch_params(is_on)
gen_control_switch_params(instance, is_on) ==
    LET target == IF is_on THEN "on" ELSE "off" IN
    IF instance.uiid \in MULTIPLE_SINGLE_PROTOCOL_UIIDS
    THEN Map([switches |-> List([i \in 1..RelayCount |->
                 Map([switch |-> Str(IF i - 1 = 0 THEN target ELSE "off"),
                      outlet |-> Num(i - 1)])])])
    ELSE SwitchParams(target)

\* mutant: the 4-relay family reads the switch of its last relay
get_switch_value_LastRelay(instance, device) ==
    IF instance.uiid \in MULTIPLE_SINGLE_PROTOCOL_UIIDS
    THEN LET switches == deep_get(device, <<"itemData", "params", "switches">>,
                                  NoneV)
         IN (IF switches.t = "list" /\ Len(switches.l) >= RelayCount
             THEN deep_get(switches.l[RelayCount], <<"switch">>, Str("off"))
             ELSE Str("off")) = Str("on")
    ELSE deep_get(device, <<"itemData", "params", "switch">>, Str("off"))
            = Str("on")

\* Uiid.get_switch_value(device): the switch of relay 0 for the 4-relay
\* family, the flat switch field otherwise; "off" when the field is missing
get_switch_value(instance, device) ==
    IF instance.uiid \in MULTIPLE_SINGLE_PROTOCOL_UIIDS
    THEN LET switches == deep_get(device, <<"itemData", "params", "switches">>,
                                  NoneV)
         IN (IF switches.t = "list" /\ Len(switches.l) >= 1
             THEN deep_get(switches.l[1], <<"switch">>, Str("off"))
             ELSE Str("off")) = Str("on")
    ELSE deep_get(device, <<"itemData", "params", "switch">>, Str("off"))
            = Str("on")

\* the decimal strings among the values explored
Numerals == ("2150" :> 2150) @@ ("4500" :> 4500) @@ ("85" :> 85)

\* the outcome of an adapter method: the value returned, or the exception
Returned(value) == [value |-> value, raised |-> "none"]
Throws(exception) == [value |-> NoneV, raised |-> exception]

\* float(value) and int(value): a number, the number a decimal string
\* spells, ValueError for another string, TypeError for None, a dict or a
\* list
to_number(v) ==
    IF v.t \in {"num", "bool"} THEN Returned(v)
    ELSE IF v.t = "str"
         THEN IF v.s \in DOMAIN Numerals THEN Returned(Num(Numerals[v.s]))
              ELSE Throws("ValueError")
    ELSE Throws("TypeError")

\* round(float(str_value) / 100, 1), in tenths; exact for the multiples of
\* ten explored
Hundredth(v) ==
    IF to_number(v).raised # "none" THEN to_number(v)
    ELSE Returned([t |-> "dec", tenths |-> to_number(v).value.n \div 10])

Readers == {"get_rssi_value", "get_temperature_value", "get_humidity_value",
            "get_battery_value"}

\* the params field each reader reads
ReaderField ==
    [get_rssi_value |-> "rssi", get_temperature_value |-> "temperature",
     get_humidity_value |-> "humidity", get_battery_value |-> "battery"]

\* Uiid.get_rssi_value(device)
get_rssi_value(device) ==
    Returned(deep_get(device, <<"itemData", "params", "rssi">>, NoneV))

\* Uiid.get_temperature_value(device)
get_temperature_value(device) ==
    LET str_value == deep_get(device, <<"itemData", "params", "temperature">>, NoneV)
    IN IF str_value # NoneV THEN Hundredth(str_value) ELSE Returned(NoneV)

\* Uiid.get_humidity_value(device)
get_humidity_value(device) ==
    LET str_value == deep_get(device, <<"itemData", "params", "humidity">>, NoneV)
    IN IF str_value # NoneV THEN Hundredth(str_value) ELSE Returned(NoneV)

\* Uiid.get_battery_value(device)
get_battery_value(device) ==
    LET value == deep_get(device, <<"itemData", "params", "battery">>, NoneV)
    IN IF IsNumber(value) THEN Returned(value) ELSE to_number(value)

\* the reader of a sensor entity's native_value
native_value(op, device) ==
    IF op = "get_rssi_value" THEN get_rssi_value(device)
    ELSE IF op = "get_temperature_value" THEN get_temperature_value(device)
    ELSE IF op = "get_humidity_value" THEN get_humidity_value(device)
    ELSE get_battery_value(device)

(* ---------------------------------------------------------------------- *)
(* Coordinator: device state store and event subscriptions                 *)
(* ---------------------------------------------------------------------- *)
\* async_setup(): first refresh of the device list, then the handlers are
\* handed to the websocket client
AsyncSetup ==
    /\ ~coordinator_handler
    /\ data' = Inventory
    /\ coordinator_handler' = TRUE
    /\ UNCHANGED <<event_handler_map, last_event, invoked, published,
                   uiid_instance_dict, libVars>>
    /\ UNCHANGED <<connVars, cmdVars>>

\* add_event_handler(key, handler), from EWeLinkEvent.async_added_to_hass;
\* the constructor of the entity has resolved the adapter of the device
AddEventHandler(d, outlet) ==
    /\ d \in DOMAIN data
    /\ get_device_uiid(data[d]) = Num(UiidButton)
    /\ gen_event_callback_key(d, outlet) \notin event_handler_map
    /\ event_handler_map' = event_handler_map \cup {gen_event_callback_key(d, outlet)}
    /\ uiid_instance_dict' = Memoize(uiid_instance_dict, {UiidButton})
    /\ UNCHANGED <<coordinator_handler, data, last_event, invoked, published,
                   libVars>>
    /\ UNCHANGED <<connVars, cmdVars>>

\* remove_event_handler(key), from EWeLinkEvent.async_will_remove_from_hass
RemoveEventHandler(d, outlet) ==
    /\ gen_event_callback_key(d, outlet) \in event_handler_map
    /\ event_handler_map' = event_handler_map \ {gen_event_callback_key(d, outlet)}
    /\ UNCHANGED <<coordinator_handler, data, last_event, invoked, published,
                   uiid_instance_dict, libVars>>
    /\ UNCHANGED <<connVars, cmdVars>>

\* mutant: the keys decode to the event of the key before
key_2_event_type_Shifted(key) ==
    IF key = Num(1) THEN "single_press"
    ELSE IF key = Num(2) THEN "double_press"
    ELSE "none"

\* Uiid174.key_2_event_type(key)
key_2_event_type(key) ==
    IF key = Num(0) THEN "single_press"
    ELSE IF key = Num(1) THEN "double_press"
    ELSE IF key = Num(2) THEN "long_press"
    ELSE "none"

\* the adapter of the family declares event types (only Uiid174 does)
HasEventTypes(uiid) == uiid = Num(UiidButton)

\* EWeLinkEvent.handle_trigger_event(outlet, key) of the entity under hkey
handle_trigger_event(lastev, hkey, outlet, key) ==
    IF outlet = Num(hkey[3]) /\ key_2_event_type(key) # "none"
    THEN [k \in DOMAIN lastev \cup {hkey} |->
             IF k = hkey THEN key_2_event_type(key) ELSE lastev[k]]
    ELSE lastev

\* the outcome of a store operation: the store, the events fired, whether
\* it raised, the subscriptions it called and the family ids it resolved
StoreResult(dt, lastev, raised) ==
    [data |-> dt, last_event |-> lastev, raised |-> raised,
     invoked |-> <<>>, published |-> <<>>, uiids |-> {}]

\* mutant: the snapshot is handed to the observers twice
async_set_updated_data_Twice(result) ==
    [result EXCEPT !.published = Append(Append(@, result.data), result.data)]

\* self.async_set_updated_data(self.data): the store as it is now is
\* published to the listeners of the coordinator
async_set_updated_data(result) ==
    [result EXCEPT !.published = Append(@, result.data)]

\* the snapshots of an operation that the exploration logs
Logged(snapshots) == SubSeq(snapshots, 1, Min(Len(snapshots), publish_bound))

\* line 83: the operation resolved the adapter of the family
Resolved(result, uiid) == [result EXCEPT !.uiids = {uiid.n}]

\* line 96: the operation called the subscription under hkey; seen is the
\* device as the store held it during the call
Invoked(result, hkey, outlet, key, seen) ==
    [result EXCEPT !.invoked = <<[handler |-> hkey, outlet |-> outlet,
                                  key |-> key, seen |-> seen]>>]

MergeDevice(dt, device_id, source) ==
    [dt EXCEPT ![device_id] = Map(merge(dt[device_id].m, source))]

\* mutant: the params are merged before the subscription is called
update_entity_state_MergesFirst(dt, evmap, lastev, device_id, params) ==
    IF device_id \notin DOMAIN dt THEN StoreResult(dt, lastev, FALSE)
    ELSE IF get_device_uiid(dt[device_id]) = NoneV THEN StoreResult(dt, lastev, FALSE)
    ELSE LET uiid == get_device_uiid(dt[device_id])
             outlet == deep_get(params, <<"outlet">>, Num(0))
             key == deep_get(params, <<"key">>, NoneV)
             hkey == gen_event_callback_key(device_id, outlet.n)
             merged == MergeDevice(dt, device_id,
                           [itemData |-> Map([params |-> params])])
         IN IF HasEventTypes(uiid) /\ IsNumber(outlet) /\ IsNumber(key)
            THEN IF hkey \notin evmap
                 THEN Resolved(StoreResult(dt, lastev, TRUE), uiid)
                 ELSE async_set_updated_data(Invoked(Resolved(
                          StoreResult(merged,
                              handle_trigger_event(lastev, hkey, outlet, key),
                              FALSE), uiid), hkey, outlet, key, merged[device_id]))
            ELSE async_set_updated_data(
                     Resolved(StoreResult(merged, lastev, FALSE), uiid))

\* update_entity_state(device_id, params): the outcome on the store, and
\* whether the KeyError of the handler lookup was raised
update_entity_state(dt, evmap, lastev, device_id, params) ==
    IF device_id \notin DOMAIN dt THEN StoreResult(dt, lastev, FALSE)
    ELSE IF get_device_uiid(dt[device_id]) = NoneV THEN StoreResult(dt, lastev, FALSE)
    ELSE LET uiid == get_device_uiid(dt[device_id])
             outlet == deep_get(params, <<"outlet">>, Num(0))
             key == deep_get(params, <<"key">>, NoneV)
             hkey == gen_event_callback_key(device_id, outlet.n)
             merged == MergeDevice(dt, device_id,
                           [itemData |-> Map([params |-> params])])
         IN IF HasEventTypes(uiid) /\ IsNumber(outlet) /\ IsNumber(key)
            THEN IF hkey \notin evmap
                 THEN Resolved(StoreResult(dt, lastev, TRUE), uiid)
                 ELSE async_set_updated_data(Invoked(Resolved(
                          StoreResult(merged,
                              handle_trigger_event(lastev, hkey, outlet, key),
                              FALSE), uiid), hkey, outlet, key, dt[device_id]))
            ELSE async_set_updated_data(
                     Resolved(StoreResult(merged, lastev, FALSE), uiid))

\* mutant: the availability push replaces the item data of the device
update_entity_available_Replaces(dt, lastev, device_id, online) ==
    IF device_id \notin DOMAIN dt THEN StoreResult(dt, lastev, FALSE)
    ELSE async_set_updated_data(
             StoreResult([dt EXCEPT ![device_id] =
                             Map([itemData |-> Map([online |-> bool(online)])])],
                         lastev, FALSE))

\* mutant: an availability push for an unknown device creates its entry
update_entity_available_Creates(dt, lastev, device_id, online) ==
    async_set_updated_data(
        StoreResult([d \in DOMAIN dt \cup {device_id} |->
                        IF d \in DOMAIN dt /\ d # device_id THEN dt[d]
                        ELSE Map([itemData |-> Map([online |-> bool(online)])])],
                    lastev, FALSE))

\* update_entity_available(device_id, online)
update_entity_available(dt, lastev, device_id, online) ==
    IF device_id \notin DOMAIN dt THEN StoreResult(dt, lastev, FALSE)
    ELSE async_set_updated_data(
             StoreResult(MergeDevice(dt, device_id,
                            [itemData |-> Map([online |-> bool(online)])]),
                         lastev, FALSE))

(* ---------------------------------------------------------------------- *)
(* Command path: coordinator.control_device over ws_client.control_device  *)
(* ---------------------------------------------------------------------- *)
\* now_timestamp()
now_timestamp == now

\* the millisecond clock advances
Tick ==
    /\ now < MaxClock
    /\ now' = now + 1
    /\ UNCHANGED <<pending_responses, call, late_reply_seen, read_log>>
    /\ UNCHANGED <<connVars, storeVars>>

\* dict.pop(key) when the key is present, the dict unchanged otherwise
Pop(table, key) == [k \in DOMAIN table \ {key} |-> table[k]]

\* dict[key] = value
Put(table, key, value) ==
    [k \in DOMAIN table \cup {key} |-> IF k = key THEN value ELSE table[k]]

\* control_device up to its first await: the connected test, the new
\* correlation id and the registration of the future
CallStart(c, dev, params) ==
    /\ call[c].pc = "idle"
    /\ IF c = 1 THEN TRUE ELSE call[c - 1].pc # "idle"
    /\ coordinator_handler
    /\ IF (~is_connected) \/ dev = NoDevice
       THEN /\ call' = [call EXCEPT ![c].pc = "done", ![c].device = dev,
                           ![c].params = params,
                           ![c].result = Ack(ErrNotConnected, NoSeq,
                               "ws not connect or device is not exist.")]
            /\ UNCHANGED pending_responses
       ELSE LET sequence == now_timestamp IN
            /\ pending_responses' = Put(pending_responses, sequence, c)
            /\ call' = [call EXCEPT ![c].pc = IF ws = "none" THEN "done" ELSE "sending",
                           ![c].sequence = sequence, ![c].fut = "pending",
                           ![c].device = dev, ![c].params = params,
                           ![c].result = IF ws = "none" THEN Absent ELSE NoResult]
    /\ UNCHANGED <<now, late_reply_seen, read_log>>
    /\ UNCHANGED <<connVars, storeVars>>

\* mutant: the facade merges the payload whatever the ack says
FinishMergesAlways(c, result) ==
    LET out == update_entity_state(data, event_handler_map, last_event,
                                   call[c].device, call[c].params)
    IN /\ data' = out.data
       /\ last_event' = out.last_event
       /\ invoked' = out.invoked
       /\ published' = Logged(out.published)
       /\ uiid_instance_dict' = Memoize(uiid_instance_dict, out.uiids)
       /\ call' = [call EXCEPT ![c].pc = "done", ![c].reply = NoFrame,
                      ![c].deadline = 0,
                      ![c].result = IF out.raised THEN Raised ELSE result]
       /\ UNCHANGED <<coordinator_handler, event_handler_map, libVars>>

\* the end of coordinator.control_device with the result of the client:
\* the optimistic merge on error 0, then the return to the caller
Finish(c, result) ==
    LET out == IF result.kind = "ack" /\ result.error = 0
               THEN update_entity_state(data, event_handler_map, last_event,
                                        call[c].device, call[c].params)
               ELSE StoreResult(data, last_event, FALSE)
    IN /\ data' = out.data
       /\ last_event' = out.last_event
       /\ invoked' = out.invoked
       /\ published' = Logged(out.published)
       /\ uiid_instance_dict' = Memoize(uiid_instance_dict, out.uiids)
       /\ call' = [call EXCEPT ![c].pc = "done", ![c].reply = NoFrame,
                      ![c].deadline = 0,
                      ![c].result = IF out.raised THEN Raised ELSE result]
       /\ UNCHANGED <<coordinator_handler, event_handler_map, libVars>>

ReplyAck(c) == Ack(call[c].reply.error, call[c].reply.sequence, "remote")

\* `await ws.send_json(command)` completed and wait_for starts: the frame is
\* written (on a dropped socket it is lost); a future that is already
\* resolved is returned at once
CallSendOk(c) ==
    /\ call[c].pc = "sending"
    /\ ws \in {"open", "dropped"}
    /\ wire' = Append(wire, [action |-> "update", sequence |-> call[c].sequence])
    /\ IF call[c].fut = "result"
       THEN Finish(c, ReplyAck(c))
       ELSE /\ call' = [call EXCEPT ![c].pc = "waiting",
                           ![c].deadline = now + TimeoutTicks]
            /\ UNCHANGED storeVars
    /\ UNCHANGED <<pending_responses, now, late_reply_seen, read_log>>
    /\ UNCHANGED <<hass_task, cancel_requested, stop_event, is_connected, ws,
                   reconnect_delay_time, last_wait, cycle_connected,
                   task_exception, delay_bound, read_bound,
                   publish_bound, stop_call>>

\* `await ws.send_json(command)` raised on a socket that dropped or was
\* closed: the exception is not a TimeoutError and leaves control_device
CallSendFail(c) ==
    /\ call[c].pc = "sending"
    /\ ws \in {"dropped", "closed"}
    /\ call' = [call EXCEPT ![c].pc = "done", ![c].result = Raised]
    /\ UNCHANGED <<pending_responses, now, late_reply_seen, read_log>>
    /\ UNCHANGED <<connVars, storeVars>>

\* the waiter resumes with the result of its future
CallReturn(c) ==
    /\ call[c].pc = "waiting"
    /\ call[c].fut = "result"
    /\ Finish(c, ReplyAck(c))
    /\ UNCHANGED <<pending_responses, now, late_reply_seen, read_log>>
    /\ UNCHANGED connVars

\* the timer of wait_for fires: the waiter is cancelled at its await, which
\* cancels a future that is still pending and discards one that was resolved
\* but whose waiter has not resumed yet
TimeoutFire(c) ==
    /\ call[c].pc = "waiting"
    /\ now >= call[c].deadline
    /\ call' = [call EXCEPT ![c].pc = "expired",
                   ![c].fut = IF @ = "pending" THEN "cancelled" ELSE @]
    /\ UNCHANGED <<pending_responses, now, late_reply_seen, read_log>>
    /\ UNCHANGED <<connVars, storeVars>>

\* mutant: the synthesized ack does not carry the correlation id
TimeoutAckNoSequence(c) == Ack(ErrTimeout, NoSeq, "Request Timeout")

\* line 250: the ack synthesized on timeout
TimeoutAck(c) == Ack(ErrTimeout, call[c].sequence, "Request Timeout")

\* mutant: the timeout path leaves the entry in the table
TimeoutHandleKeepsEntry(c) ==
    /\ call[c].pc = "expired"
    /\ Finish(c, TimeoutAck(c))
    /\ UNCHANGED <<pending_responses, now, late_reply_seen, read_log>>
    /\ UNCHANGED connVars

\* `except TimeoutError`: drop the table entry of the sequence, return the
\* synthesized ack
TimeoutHandle(c) ==
    /\ call[c].pc = "expired"
    /\ pending_responses' = Pop(pending_responses, call[c].sequence)
    /\ Finish(c, TimeoutAck(c))
    /\ UNCHANGED <<now, late_reply_seen, read_log>>
    /\ UNCHANGED connVars

(* ---------------------------------------------------------------------- *)
(* Read loop: one TEXT message through __handle_ws_message                 *)
(* ---------------------------------------------------------------------- *)
\* the correlation ids handed out so far
IssuedSeqs == {call[c].sequence : c \in {x \in Calls : call[x].sequence # NoSeq}}

\* the call ended with the timeout ack
TimedOut(c) == call[c].pc = "done" /\ call[c].result.error = ErrTimeout

\* the frame bears the correlation id of a call that has timed out
LateReply(f) == \E c \in Calls : TimedOut(c) /\ f.sequence = call[c].sequence

\* lines 91-95: a frame whose sequence is in the table pops the entry and
\* resolves its future unless the future is already done
Correlate(f) ==
    IF f.sequence \in DOMAIN pending_responses
    THEN LET c == pending_responses[f.sequence] IN
         /\ pending_responses' = Pop(pending_responses, f.sequence)
         /\ call' = IF call[c].fut = "pending"
                    THEN [call EXCEPT ![c].fut = "result", ![c].reply = f]
                    ELSE call
    ELSE UNCHANGED <<pending_responses, call>>

\* lines 97-117: dispatch on the action tag to the coordinator's handlers
Dispatch(f) ==
    IF f.action = "update" /\ f.deviceid # NoDevice /\ f.params # NoneV
          /\ coordinator_handler
    THEN update_entity_state(data, event_handler_map, last_event,
                             f.deviceid, f.params)
    ELSE IF f.action = "sysmsg" /\ f.deviceid # NoDevice /\ f.params # NoneV
               /\ Has(f.params, "online") /\ coordinator_handler
    THEN update_entity_available(data, last_event, f.deviceid,
                                 f.params.m["online"])
    ELSE StoreResult(data, last_event, FALSE)

\* mutant: the decode error of a malformed message is not caught
HandleFrameDecodeEscapes(f) ==
    /\ hass_task = "reading"
    /\ ~cancel_requested
    /\ ws = "open"
    /\ f.text = "malformed"
    /\ read_log' = IF Len(read_log) < read_bound
                    THEN Append(read_log, f.text) ELSE read_log
    /\ hass_task' = "failed"
    /\ task_exception' = "JSONDecodeError"
    /\ ws' = "closed"
    /\ UNCHANGED <<cancel_requested, stop_event, is_connected,
                   reconnect_delay_time, wire, last_wait, cycle_connected,
                   delay_bound, read_bound,
                   publish_bound, stop_call>>
    /\ UNCHANGED <<pending_responses, now, call, late_reply_seen, storeVars>>

\* an exception other than json.JSONDecodeError leaves the handler, the read
\* loop and the task; the `async with` closes the socket on the way out
LoopRaised(exception) ==
    /\ hass_task' = "failed"
    /\ task_exception' = exception
    /\ ws' = "closed"
    /\ UNCHANGED <<cancel_requested, stop_event, is_connected,
                   reconnect_delay_time, wire, last_wait, cycle_connected,
                   delay_bound, read_bound,
                   publish_bound, stop_call>>

HandleFrame(f) ==
    /\ hass_task = "reading"
    /\ ~cancel_requested
    /\ ws = "open"
    /\ read_log' = IF Len(read_log) < read_bound
                    THEN Append(read_log, f.text) ELSE read_log
    /\ IF f.text = "malformed"
       THEN UNCHANGED <<connVars, pending_responses, now, call,
                        late_reply_seen, storeVars>>
       ELSE IF f.text = "scalar"
       THEN /\ LoopRaised("AttributeError")
            /\ UNCHANGED <<pending_responses, now, call, late_reply_seen,
                           storeVars>>
       ELSE /\ Correlate(f)
            /\ data' = Dispatch(f).data
            /\ last_event' = Dispatch(f).last_event
            /\ invoked' = Dispatch(f).invoked
            /\ published' = Logged(Dispatch(f).published)
            /\ uiid_instance_dict' = Memoize(uiid_instance_dict, Dispatch(f).uiids)
            /\ IF Dispatch(f).raised THEN LoopRaised("KeyError") ELSE UNCHANGED connVars
            /\ late_reply_seen' = (late_reply_seen \/ LateReply(f))
            /\ UNCHANGED <<now, coordinator_handler, event_handler_map, libVars>>

(* ---------------------------------------------------------------------- *)
(* Specification                                                           *)
(* ---------------------------------------------------------------------- *)
Next ==
    \/ Start
    \/ TaskBegin
    \/ ResolveOk
    \/ \E kind \in ResolveFailures : ResolveFail(kind)
    \/ ConnectOk
    \/ \E kind \in ConnectFailures : ConnectFail(kind)
    \/ AnnounceOk
    \/ \E caught \in BOOLEAN : AnnounceFail(caught)
    \/ SocketDrop
    \/ \E kind \in SessionEnds : SessionEnd(kind)
    \/ BackoffDone
    \/ Stop
    \/ TaskCancelled
    \/ AsyncSetup
    \/ Tick
    \/ \E c \in Calls, dev \in {"d1", NoDevice}, params \in CommandParams :
          CallStart(c, dev, params)
    \/ \E c \in Calls : CallSendOk(c)
    \/ \E c \in Calls : CallSendFail(c)
    \/ \E c \in Calls : CallReturn(c)
    \/ \E c \in Calls : TimeoutFire(c)
    \/ \E c \in Calls : TimeoutHandle(c)
    \/ \E f \in CmdFrames(IssuedSeqs) : HandleFrame(f)

Spec == Init /\ [][Next]_vars

\* the connection manager on its own, over the whole range of the delay: no
\* command is issued and the only frames read are the undecodable ones
InitConn ==
    /\ Constructed
    /\ delay_bound = MaxDelay + DelayStep
    /\ read_bound = 0
    /\ publish_bound = 0
    /\ origin_dict = EmptyMap

NextConn ==
    \/ Start
    \/ TaskBegin
    \/ ResolveOk
    \/ \E kind \in ResolveFailures : ResolveFail(kind)
    \/ ConnectOk
    \/ \E kind \in ConnectFailures : ConnectFail(kind)
    \/ AnnounceOk
    \/ \E caught \in BOOLEAN : AnnounceFail(caught)
    \/ SocketDrop
    \/ \E kind \in SessionEnds : SessionEnd(kind)
    \/ BackoffDone
    \/ Stop
    \/ StopAgain
    \/ TaskCancelled
    \/ \E f \in BadFrames : HandleFrame(f)

SpecConn == InitConn /\ [][NextConn]_vars

\* the connection manager under the event loop's scheduling: a task that has
\* been created gets its first step, and a cancellation that was requested
\* is delivered at the await the task is suspended in; the network owes no
\* step (a lookup, a handshake or an idle socket may block for ever)
FairSpecConn == SpecConn /\ WF_vars(TaskBegin) /\ WF_vars(TaskCancelled)

\* the store and the subscriptions under the frames of one session: the
\* connection is established once, one command is issued and the clock
\* stands still
InitStore ==
    /\ Constructed
    /\ delay_bound = CmdDelayBound
    /\ read_bound = ReadLogBound
    /\ publish_bound = 0
    /\ origin_dict = EmptyMap

ButtonKeys == {<<"d2", 0>>, <<"d2", 2>>, <<"d3", 2>>}

NextStore ==
    \/ Start
    \/ TaskBegin
    \/ ResolveOk
    \/ ConnectOk
    \/ AnnounceOk
    \/ AsyncSetup
    \/ \E k \in ButtonKeys : AddEventHandler(k[1], k[2])
    \/ \E k \in ButtonKeys : RemoveEventHandler(k[1], k[2])
    \/ \E params \in CommandParams : CallStart(1, "d1", params)
    \/ CallSendOk(1)
    \/ CallReturn(1)
    \/ \E f \in StoreFrames(IssuedSeqs) : HandleFrame(f)

SpecStore == InitStore /\ [][NextStore]_vars

\* merge() on its own: trees over two keys, two levels deep
TreeKeys == {"a", "b"}
Leaves == {Num(1), List(<<Str("on")>>)}
MapsOver(values) == UNION {[K -> values] : K \in SUBSET TreeKeys}
NestedMaps == MapsOver(Leaves \cup {Map(m) : m \in MapsOver(Leaves)})

InitMerge ==
    /\ Constructed
    /\ delay_bound = CmdDelayBound
    /\ read_bound = 0
    /\ publish_bound = 0
    /\ origin_dict \in {Map(m) : m \in NestedMaps}

\* merge(origin_dict, source_dict): origin_dict is changed in place
MergeStep(source_dict) ==
    /\ origin_dict' = Map(merge(origin_dict.m, source_dict))
    /\ adapter_out' = [op |-> "merge", uiid |-> 0, arg |-> Map(source_dict),
                       value |-> Map(merge(origin_dict.m, source_dict)),
                       raised |-> "none"]
    /\ UNCHANGED <<connVars, cmdVars>>
    /\ UNCHANGED <<coordinator_handler, data, event_handler_map, last_event,
                   invoked, published, uiid_instance_dict, api>>

NextMerge == \E source_dict \in NestedMaps : MergeStep(source_dict)

SpecMerge == InitMerge /\ [][NextMerge]_vars

\* the registry and the adapters on their own
FamilyIds == DOMAIN uiid_dict \cup {2}
SensorFamilies == {7014, 2}
SensorParams ==
    {EmptyMap,
     Map([rssi |-> Num(-60), temperature |-> Str("2150"),
          humidity |-> Str("4500"), battery |-> Num(85)]),
     Map([battery |-> Str("85"), temperature |-> Num(2150)]),
     Map([rssi |-> Num(-60), humidity |-> Str("")])}

InitAdapter ==
    /\ Constructed
    /\ delay_bound = CmdDelayBound
    /\ read_bound = 0
    /\ publish_bound = 0
    /\ origin_dict = EmptyMap

AdapterUnchanged ==
    /\ UNCHANGED <<connVars, cmdVars>>
    /\ UNCHANGED <<coordinator_handler, data, event_handler_map, last_event,
                   invoked, published, origin_dict, api>>

\* get_uiid_instance(uiid)
Resolve(uiid) ==
    /\ uiid_instance_dict' = get_uiid_instance(uiid_instance_dict, uiid).memo
    /\ adapter_out' = [op |-> "get_uiid_instance", uiid |-> uiid, arg |-> NoneV,
                       value |-> get_uiid_instance(uiid_instance_dict, uiid).instance,
                       raised |-> "none"]
    /\ AdapterUnchanged

\* a switch entity of the family builds the payload of set-switch(is_on)
SetSwitch(uiid, is_on) ==
    /\ uiid_instance_dict' = get_uiid_instance(uiid_instance_dict, uiid).memo
    /\ adapter_out' = [op |-> "gen_control_switch_params", uiid |-> uiid,
                       arg |-> Bool(is_on),
                       value |-> gen_control_switch_params(
                           get_uiid_instance(uiid_instance_dict, uiid).instance,
                           is_on),
                       raised |-> "none"]
    /\ AdapterUnchanged

\* a switch entity of the family sets its switch on a device with the given
\* params: the payload of set-switch(is_on) is merged into the device as
\* control_device does on error 0, then is_on reads the switch back
SetThenGetSwitch(uiid, params, is_on) ==
    LET instance == get_uiid_instance(uiid_instance_dict, uiid).instance
        payload == gen_control_switch_params(instance, is_on)
        out == update_entity_state("d1" :> NewDevice("d1", uiid, params), {},
                                   <<>>, "d1", payload)
    IN /\ uiid_instance_dict' = get_uiid_instance(uiid_instance_dict, uiid).memo
       /\ adapter_out' = [op |-> "get_switch_value", uiid |-> uiid,
                          arg |-> Map([is_on |-> Bool(is_on), before |-> params]),
                          value |-> Bool(get_switch_value(instance,
                                                          out.data["d1"])),
                          raised |-> "none"]
       /\ AdapterUnchanged

\* a sensor entity of the family reads its native_value from a device with
\* the given params
ReadSensor(op, uiid, params) ==
    LET out == native_value(op, NewDevice("d1", uiid, params)) IN
    /\ uiid_instance_dict' = get_uiid_instance(uiid_instance_dict, uiid).memo
    /\ adapter_out' = [op |-> op, uiid |-> uiid, arg |-> params,
                       value |-> out.value, raised |-> out.raised]
    /\ AdapterUnchanged

NextAdapter ==
    \/ \E uiid \in FamilyIds : Resolve(uiid)
    \/ \E uiid \in FamilyIds, is_on \in BOOLEAN : SetSwitch(uiid, is_on)
    \/ \E uiid \in {1, 191, 2}, is_on \in BOOLEAN,
          params \in {EmptyMap, SwitchParams("on"), SwitchParams("off"),
                      Map([switches |-> List([i \in 1..RelayCount |->
                               Map([switch |-> Str("on"),
                                    outlet |-> Num(i - 1)])])]),
                      Map([switches |-> Str("on"), switch |-> Num(1)])} :
          SetThenGetSwitch(uiid, params, is_on)
    \/ \E op \in Readers, uiid \in SensorFamilies, params \in SensorParams :
          ReadSensor(op, uiid, params)

SpecAdapter == InitAdapter /\ [][NextAdapter]_vars

(* ---------------------------------------------------------------------- *)
(* The light adapter (Uiid104)                                             *)
(* ---------------------------------------------------------------------- *)
\* Uiid104.__init__: the native ranges of the device
ewelink_color_temp_range == <<0, 255>>
ewelink_brightness_range == <<1, 100>>
\* Uiid.ha_brightness_range
ha_brightness_range == <<1, 255>>
\* Uiid.min_color_temp_kelvin, Uiid.max_color_temp_kelvin: the default kelvin
\* range of the light platform
min_color_temp_kelvin == 2000
max_color_temp_kelvin == 6535

\* the linear remap of value from from_range onto to_range, as the exact
\* quotient num / den
map_value_general(value, from_range, to_range) ==
    [num |-> to_range[1] * (from_range[2] - from_range[1])
             + (value - from_range[1]) * (to_range[2] - to_range[1]),
     den |-> from_range[2] - from_range[1]]

\* round(x) of python on the quotient x = num / den, den > 0: the nearest
\* integer, a tie going to the even one
round(x) ==
    LET q == x.num \div x.den
        r == x.num % x.den
    IN IF 2 * r < x.den THEN q
       ELSE IF 2 * r > x.den THEN q + 1
       ELSE IF q % 2 = 0 THEN q ELSE q + 1

\* Uiid104.get_ltype(device)
get_ltype(device) ==
    deep_get(device, <<"itemData", "params", "ltype">>, Str("white"))

\* Uiid104.get_brightess(device)
get_brightess(device) ==
    LET ltype == get_ltype(device)
        br == IF ltype.t = "str"
              THEN deep_get(device, <<"itemData", "params", ltype.s, "br">>, NoneV)
              ELSE NoneV
    IN IF IsNumber(br)
       THEN Num(round(map_value_general(br.n, ewelink_brightness_range,
                                        ha_brightness_range)))
       ELSE NoneV

\* Uiid104.get_color_temp_kelvin(device)
get_color_temp_kelvin(device) ==
    LET ltype == get_ltype(device)
        ct == IF ltype.t = "str"
              THEN deep_get(device, <<"itemData", "params", ltype.s, "ct">>, NoneV)
              ELSE NoneV
    IN IF IsNumber(ct)
       THEN Num(round(map_value_general(
                ct.n, ewelink_color_temp_range,
                <<min_color_temp_kelvin, max_color_temp_kelvin>>)))
       ELSE NoneV

\* Uiid104.gen_control_color_temp_params(device, color_temp_kelvin)
gen_control_color_temp_params(device, color_temp_kelvin) ==
    LET br == deep_get(device, <<"itemData", "params", "white", "br">>, Num(50))
        ct == map_value_general(color_temp_kelvin,
                                <<min_color_temp_kelvin, max_color_temp_kelvin>>,
                                ewelink_color_temp_range)
    IN Map([ltype |-> Str("white"),
            white |-> Map([br |-> br, ct |-> Num(round(ct))])])

\* dict.get(key, default) on a python dict
dict_get(d, key, default) == IF Has(d, key) THEN d.m[key] ELSE default

\* mutant: the brightness is remapped onto the colour temperature range
gen_control_brightness_params_WrongRange(device, brightness) ==
    LET ltype == get_ltype(device)
        ewelinl_br == round(map_value_general(brightness, ha_brightness_range,
                                              ewelink_color_temp_range))
    IN Map([ltype |-> ltype,
            white |-> Map([br |-> Num(ewelinl_br),
                           ct |-> deep_get(device,
                                           <<"itemData", "params", "white", "ct">>,
                                           Num(100))])])

\* Uiid104.gen_control_brightness_params(device, brightness)
gen_control_brightness_params(device, brightness) ==
    LET ltype == get_ltype(device)
        ewelinl_br == round(map_value_general(brightness, ha_brightness_range,
                                              ewelink_brightness_range))
        ewelink_color == deep_get(device, <<"itemData", "params", "color">>,
                                  EmptyMap)
    IN IF ltype = Str("color")
       THEN Map([ltype |-> ltype,
                 color |-> Map([br |-> Num(ewelinl_br),
                                r |-> dict_get(ewelink_color, "r", Num(100)),
                                g |-> dict_get(ewelink_color, "g", Num(100)),
                                b |-> dict_get(ewelink_color, "b", Num(100))])])
       ELSE Map([ltype |-> ltype,
                 white |-> Map([br |-> Num(ewelinl_br),
                                ct |-> deep_get(device,
                                                <<"itemData", "params", "white", "ct">>,
                                                Num(100))])])

\* the params of the lights explored: every native brightness in both light
\* types, every native colour temperature, and lights that report neither
LightParams ==
    {Map([ltype |-> Str("white"),
          white |-> Map([br |-> Num(br), ct |-> Num(128)])]) :
        br \in ewelink_brightness_range[1]..ewelink_brightness_range[2]}
    \cup {Map([ltype |-> Str("color"),
               color |-> Map([br |-> Num(br), r |-> Num(255), g |-> Num(0),
                              b |-> Num(0)])]) :
        br \in ewelink_brightness_range[1]..ewelink_brightness_range[2]}
    \cup {Map([white |-> Map([br |-> Num(50), ct |-> Num(ct)])]) :
        ct \in ewelink_color_temp_range[1]..ewelink_color_temp_range[2]}
    \cup {EmptyMap, Map([ltype |-> Str("white"), white |-> Map([br |-> Str("50")])])}

\* EWeLinkLight.brightness: the light entity reads the brightness of a device
\* with the given params
GetBrightness(params) ==
    /\ adapter_out' = [op |-> "get_brightess", uiid |-> 104, arg |-> params,
                       value |-> get_brightess(NewDevice("d1", 104, params)),
                       raised |-> "none"]
    /\ AdapterUnchanged
    /\ UNCHANGED uiid_instance_dict

\* EWeLinkLight.color_temp_kelvin
GetColorTemp(params) ==
    /\ adapter_out' = [op |-> "get_color_temp_kelvin", uiid |-> 104,
                       arg |-> params,
                       value |-> get_color_temp_kelvin(NewDevice("d1", 104, params)),
                       raised |-> "none"]
    /\ AdapterUnchanged
    /\ UNCHANGED uiid_instance_dict

\* EWeLinkLight.async_turn_on(brightness = the value just read): the payload
\* that sets the device to the brightness it reported
SetBrightness ==
    /\ adapter_out.op = "get_brightess"
    /\ IsNumber(adapter_out.value)
    /\ adapter_out' = [op |-> "gen_control_brightness_params", uiid |-> 104,
                       arg |-> adapter_out.arg,
                       value |-> gen_control_brightness_params(
                           NewDevice("d1", 104, adapter_out.arg), adapter_out.value.n),
                       raised |-> "none"]
    /\ AdapterUnchanged
    /\ UNCHANGED uiid_instance_dict

\* EWeLinkLight.async_turn_on(color_temp_kelvin = the value just read)
SetColorTemp ==
    /\ adapter_out.op = "get_color_temp_kelvin"
    /\ IsNumber(adapter_out.value)
    /\ adapter_out' = [op |-> "gen_control_color_temp_params", uiid |-> 104,
                       arg |-> adapter_out.arg,
                       value |-> gen_control_color_temp_params(
                           NewDevice("d1", 104, adapter_out.arg), adapter_out.value.n),
                       raised |-> "none"]
    /\ AdapterUnchanged
    /\ UNCHANGED uiid_instance_dict

NextLight ==
    \/ \E params \in LightParams : GetBrightness(params)
    \/ \E params \in LightParams : GetColorTemp(params)
    \/ SetBrightness
    \/ SetColorTemp

SpecLight == InitAdapter /\ [][NextLight]_vars

(* ---------------------------------------------------------------------- *)
(* The REST client: device enumeration and the coordinator's refresh       *)
(* ---------------------------------------------------------------------- *)
\* the families of the account and the things of each
AccountFamilies == {"f1", "f2"}
thingList(family_id) == IF family_id = "f1" THEN {"d1"} ELSE {"d2", "d3"}

\* what a request ends with: a JSON body ("json") with its error code and its
\* list, or the failure of the request ("client_error", "timeout")
Response(kind, error, list) == [kind |-> kind, error |-> error, list |-> list]
RequestFailures ==
    {Response(e, 0, {}) : e \in {"client_error", "timeout"}}
    \cup {Response("json", e, {}) : e \in {401, 403, 500}}
FamilyResponses ==
    {Response("json", 0, l) : l \in SUBSET AccountFamilies} \cup RequestFailures
ThingResponses(family_id) ==
    {Response("json", 0, thingList(family_id))} \cup RequestFailures

\* __common_error_handler(response_json): the exception it raises
common_error_handler(response_json) ==
    IF response_json.error = 0 THEN "none"
    ELSE IF response_json.error \in {401, 403} THEN "ConfigEntryAuthFailed"
    ELSE "EWeLinkApiError"

\* get_family(): aiohttp.ClientError, TimeoutError and EWeLinkApiError are
\* logged, any other exception leaves the method
get_family(family_list, response) ==
    IF response.kind # "json"
    THEN [family_list |-> family_list, raised |-> "none"]
    ELSE IF common_error_handler(response) = "none"
    THEN [family_list |-> response.list, raised |-> "none"]
    ELSE IF common_error_handler(response) = "EWeLinkApiError"
    THEN [family_list |-> family_list, raised |-> "none"]
    ELSE [family_list |-> family_list, raised |-> common_error_handler(response)]

\* get_family_device(family_id): the devices it stores and the exception it
\* raises; only TimeoutError is caught, and raised again as
\* EWeLinkConnectionError
get_family_device(response) ==
    IF response.kind = "timeout"
    THEN [devices |-> {}, raised |-> "EWeLinkConnectionError"]
    ELSE IF response.kind = "client_error"
    THEN [devices |-> {}, raised |-> "ClientError"]
    ELSE IF common_error_handler(response) = "none"
    THEN [devices |-> response.list, raised |-> "none"]
    ELSE [devices |-> {}, raised |-> common_error_handler(response)]

\* get_all_devices(): get_family(), then the get_family_device() of every
\* family under asyncio.gather(return_exceptions=True), which hands the
\* exceptions of its tasks back as results; the results are not looked at
get_all_devices(client, family, things) ==
    LET fam == get_family(client.family_list, family)
        device_dict ==
            client.device_dict
            \cup UNION {get_family_device(things[f]).devices : f \in fam.family_list}
    IN IF fam.raised # "none"
       THEN [family_list |-> fam.family_list, device_dict |-> client.device_dict,
             queried |-> {}, returned |-> {}, raised |-> fam.raised]
       ELSE IF fam.family_list = {}
       THEN [family_list |-> fam.family_list, device_dict |-> client.device_dict,
             queried |-> {}, returned |-> {}, raised |-> "none"]
       ELSE [family_list |-> fam.family_list, device_dict |-> device_dict,
             queried |-> fam.family_list, returned |-> device_dict,
             raised |-> "none"]

\* EWeLinkCoordinator._async_update_data(): EWeLinkApiError and its
\* subclasses become UpdateFailed, any other exception leaves the method
async_update_data(raised) ==
    IF raised = "none" THEN "returned"
    ELSE IF raised \in {"EWeLinkApiError", "EWeLinkConnectionError"}
    THEN "UpdateFailed"
    ELSE raised

\* one refresh of the coordinator, the REST service answering the family
\* request with family and the request for the things of f with things[f]
Refresh(family, things) ==
    LET out == get_all_devices(api, family, things) IN
    /\ api' = [family_list |-> out.family_list,
               device_dict |-> out.device_dict,
               family |-> family,
               things |-> [f \in out.queried |-> things[f]],
               outcome |-> async_update_data(out.raised)]
    /\ data' = IF out.raised = "none"
               THEN [d \in out.returned |-> Inventory[d]]
               ELSE data
    /\ UNCHANGED <<connVars, cmdVars>>
    /\ UNCHANGED <<coordinator_handler, event_handler_map, last_event, invoked,
                   published, uiid_instance_dict, origin_dict, adapter_out>>

NextApi ==
    \E family \in FamilyResponses :
        \E things \in [AccountFamilies -> UNION {ThingResponses(f) : f \in AccountFamilies}] :
            /\ \A f \in AccountFamilies : things[f] \in ThingResponses(f)
            /\ Refresh(family, things)

SpecApi == InitAdapter /\ [][NextApi]_vars

TypeOK ==
    /\ hass_task \in {"none", "created", "resolving", "connecting", "announce",
                      "reading", "backoff", "finished", "cancelled", "failed"}
    /\ ws \in {"none", "open", "dropped", "closed"}
    /\ reconnect_delay_time \in InitialDelay..(MaxDelay + DelayStep)
    /\ now \in 0..MaxClock
    /\ Len(published) <= publish_bound
    /\ Len(stop_call) <= MaxStops
    /\ \A i \in DOMAIN stop_call : stop_call[i] \in {"awaiting", "returned", "raised"}

(* ---------------------------------------------------------------------- *)
(* Claims                                                                  *)
(* ---------------------------------------------------------------------- *)
\* the future of the call is registered and unresolved, its caller waiting
Waiting(c) == call[c].pc \in {"sending", "waiting"} /\ call[c].fut = "pending"

\* the positions of the task outside a session: not started, looking up the
\* endpoint, connecting, waiting in backoff, stopped
NotConnectedStates ==
    {"none", "created", "resolving", "connecting", "backoff", "finished",
     "cancelled"}

\* the wait that follows a wait of `last` seconds (0: no wait yet)
WaitAfter(last) ==
    IF last = 0 THEN InitialDelay ELSE Min(MaxDelay, last + DelayStep)

\* C1: what a caller of control_device has received never changes afterwards,
\* so it observes the reply or the timeout ack and never both; once a call
\* has returned the timeout ack its correlation id is not in the
\* pending-request table and never comes back, and a frame bearing that id
\* leaves the call and the table as they are.
C1_AtMostOneResolution ==
    [][\A c \in Calls :
          /\ call[c].result # NoResult => call'[c].result = call[c].result
          /\ TimedOut(c) =>
                /\ call'[c] = call[c]
                /\ call[c].sequence \notin DOMAIN pending_responses
                /\ call[c].sequence \notin DOMAIN pending_responses'
                /\ \A f \in Frames(IssuedSeqs) :
                      (f.sequence = call[c].sequence /\ HandleFrame(f))
                          => pending_responses' = pending_responses]_vars

\* C1 witness: a call has returned the timeout ack and a frame bearing its
\* correlation id was handled afterwards.
C1_LateReplyAfterTimeout ==
    late_reply_seen /\ \E c \in Calls : TimedOut(c)

\* C2: a control_device call made while the task is outside a session (never
\* started, resolving, connecting, in backoff, finished or cancelled)
\* returns the not-connected ack at once, registers no pending request and
\* writes no frame.
C2_FailFastWhenNotConnected ==
    [][\A c \in Calls :
          (call[c].pc = "idle" /\ call'[c].pc # "idle"
              /\ hass_task \in NotConnectedStates)
          => /\ call'[c].pc = "done"
             /\ call'[c].result.kind = "ack"
             /\ call'[c].result.error = ErrNotConnected
             /\ pending_responses' = pending_responses
             /\ wire' = wire]_vars

\* C3: two requests that are pending at the same time never bear the same
\* correlation id.
C3_UniquePendingIds ==
    \A c1, c2 \in Calls :
        (c1 # c2 /\ Waiting(c1) /\ Waiting(c2))
            => call[c1].sequence # call[c2].sequence

\* C4: a call whose wait ran into the timeout returns the ack
\* {error: 408, sequence: its id, msg: "Request Timeout"} and its id is not in
\* the pending-request table afterwards.
C4_TimeoutAck ==
    \A c \in Calls :
        (call[c].pc = "done" /\ call[c].fut = "cancelled")
            => /\ call[c].result = Ack(ErrTimeout, call[c].sequence, "Request Timeout")
               /\ call[c].sequence \notin DOMAIN pending_responses

\* C4 witness: on an open socket with the read loop running, a call has timed
\* out without any reply.
C4_TimedOutOnHealthySocket ==
    /\ hass_task = "reading"
    /\ ws = "open"
    /\ \E c \in Calls : call[c].pc = "done" /\ call[c].fut = "cancelled"
                          /\ call[c].result.error = ErrTimeout

\* C5: no connectivity failure (endpoint discovery, handshake, session loss)
\* ends the reconnect task: none leaves the loop as an exception.
C5_ConnectivityFailuresRecovered ==
    task_exception \notin {"EWeLinkApiError", "ConnectionResetError"}

\* C6: once stop has been requested, no step of the manager begins an
\* endpoint lookup, a socket connect, a session or a backoff wait.
C6_NoAttemptAfterStop ==
    [][(stop_event /\ hass_task' # hass_task)
          => hass_task' \notin {"resolving", "connecting", "announce",
                                "reading", "backoff"}]_vars

\* C6 witness: stop was requested while the manager waits in backoff after an
\* earlier wait.
C6_StopRequestedInBackoff ==
    stop_event /\ cancel_requested /\ hass_task = "backoff"
        /\ last_wait > InitialDelay

\* C7: the first backoff wait is 5 s, every later wait is the wait before it
\* plus 5 s up to the cap of 60 s; the waits never decrease and never exceed
\* 60 s.
C7_BackoffRamp ==
    [][(hass_task' = "backoff" /\ hass_task # "backoff")
          => /\ last_wait' = WaitAfter(last_wait)
             /\ last_wait' >= last_wait
             /\ last_wait' <= MaxDelay]_vars

\* C7 witness: the manager sleeps the capped wait of 60 s.
C7_WaitAtCap == hass_task = "backoff" /\ last_wait = MaxDelay

C9_SuccessResetsBackoff ==
    (hass_task = "backoff" /\ cycle_connected) => last_wait = InitialDelay

\* C10: every control_device call that has ended returned an ack; none ended
\* with a raised exception or without a result.
C10_AlwaysAnAck ==
    \A c \in Calls : call[c].pc = "done" => call[c].result.kind = "ack"

\* the keys of a flat payload written over a params map
Overwrite(old, payload) ==
    [k \in DOMAIN old \cup DOMAIN payload |->
        IF k \in DOMAIN payload THEN payload[k] ELSE old[k]]

\* C11: the step in which a command call returns an ack to its caller changes
\* the device state map exactly when the ack carries error 0, and then by
\* writing the payload sent over the params of the commanded device; after a
\* remote error, the 408 ack or the not-connected ack the map is what it was
\* before the step.  The ack returned is the one the client produced: the
\* error and the sequence of the reply frame, when there was a reply.
C11_MergeIffAckZero ==
    [][\A c \in Calls :
          (call[c].pc # "done" /\ call'[c].pc = "done"
              /\ call'[c].result.kind = "ack")
          => /\ IF call'[c].result.error = 0
                THEN data' = [data EXCEPT ![call'[c].device].m.itemData.m.params =
                                 Map(Overwrite(@.m, call'[c].params.m))]
                ELSE data' = data
             /\ call[c].pc \in {"sending", "waiting"}
                   => /\ call[c].fut = "result"
                      /\ call'[c].result.error = call[c].reply.error
                      /\ call'[c].result.sequence = call[c].reply.sequence
             /\ call[c].pc = "expired" => call'[c].result.error = ErrTimeout
             /\ call[c].pc = "idle" => call'[c].result.error = ErrNotConnected]_vars

\* C11 witness: a call has returned an ack with error 0 while another has
\* returned a remote error, and the commanded device carries the payload.
C11_MergedAfterAckZero ==
    /\ \E c \in Calls : call[c].pc = "done" /\ call[c].result.kind = "ack"
                          /\ call[c].result.error = 0
                          /\ deep_get(data[call[c].device],
                                 <<"itemData", "params", "switch">>, NoneV)
                             = call[c].params.m["switch"]
    /\ \E c \in Calls : call[c].pc = "done" /\ call[c].result.error = ErrRemote

\* C12: handling a message that is not JSON changes neither the device state
\* map nor the pending-request table nor the subscription table; the session
\* stays connected on its open socket and the read loop stays at the point
\* where it takes the next message.
C12_MalformedFrameDropped ==
    [][\A f \in BadFrames :
          (f.text = "malformed" /\ HandleFrame(f))
          => /\ data' = data
             /\ pending_responses' = pending_responses
             /\ event_handler_map' = event_handler_map
             /\ call' = call
             /\ is_connected' /\ ws' = "open"
             /\ hass_task' = "reading" /\ ~cancel_requested'
             /\ task_exception' = "none"]_vars

\* C12 witness: with a device list, a subscription and a pending request in
\* place, the read loop handled a malformed message and then the next one.
C12_NextFrameAfterMalformed ==
    /\ read_log = <<"malformed", "object">>
    /\ hass_task = "reading"
    /\ DOMAIN data # {}
    /\ event_handler_map # {}
    /\ DOMAIN pending_responses # {}

\* the state pushes of a key press on a button-capable device whose
\* (device, outlet) pair has a subscription
SubscribedPress(f) ==
    /\ f \in ButtonFrames
    /\ f.deviceid \in DOMAIN data
    /\ <<"event", f.deviceid, f.params.m["outlet"].n>> \in event_handler_map

\* C13: handling the push of a key press {outlet: o, key: k} for a
\* button-capable device with a subscription on (device, o) calls that
\* subscription once, with o and k, and calls no other subscription; key 1
\* fires the double-press event on that subscription's entity and the events
\* of every other entity stay as they were.
C13_OnlyTheSubscribedOutlet ==
    [][\A f \in ButtonFrames :
          (SubscribedPress(f) /\ HandleFrame(f))
          => LET hkey == <<"event", f.deviceid, f.params.m["outlet"].n>> IN
             /\ invoked' = <<[handler |-> hkey, outlet |-> f.params.m["outlet"],
                               key |-> f.params.m["key"],
                               seen |-> data[f.deviceid]]>>
             /\ \A k \in DOMAIN last_event' \ {hkey} :
                    k \in DOMAIN last_event /\ last_event'[k] = last_event[k]
             /\ f.params.m["key"] = Num(1)
                    => hkey \in DOMAIN last_event'
                       /\ last_event'[hkey] = "double_press"
             /\ f.params.m["key"] = Num(7)
                    => last_event' = last_event]_vars

\* C13 witness: with subscriptions on (d2, 0), (d2, 2) and (d3, 2), the push
\* {outlet: 2, key: 1} for d2 was handled: the subscription of (d2, 2) was
\* called and fired the double press, the other entities fired nothing.
C13_DoublePressOnOutletTwo ==
    /\ event_handler_map = {<<"event", "d2", 0>>, <<"event", "d2", 2>>,
                            <<"event", "d3", 2>>}
    /\ Len(invoked) = 1
    /\ invoked[1].handler = <<"event", "d2", 2>>
    /\ invoked[1].outlet = Num(2)
    /\ invoked[1].key = Num(1)
    /\ DOMAIN last_event = {<<"event", "d2", 2>>}
    /\ last_event[<<"event", "d2", 2>>] = "double_press"

\* the availability pushes for a device of the store
AvailabilityPush(f) ==
    /\ f.action = "sysmsg"
    /\ f.text = "object"
    /\ f.deviceid \in DOMAIN data

\* C14: handling an availability push for a known device sets the online
\* flag of that device to the pushed truth value and changes nothing else:
\* the params of the device, its other fields and the other devices stay as
\* they were.
C14_OnlyTheOnlineFlag ==
    [][\A f \in StoreFrames({}) :
          (AvailabilityPush(f) /\ HandleFrame(f))
          => /\ data' = [data EXCEPT ![f.deviceid].m.itemData.m.online =
                             IF f.params.m["online"].t = "bool"
                             THEN f.params.m["online"]
                             ELSE Bool(f.params.m["online"] # Num(0))]
             /\ deep_get(data'[f.deviceid], <<"itemData", "params">>, NoneV)
                    = deep_get(data[f.deviceid], <<"itemData", "params">>, NoneV)]_vars

\* C14 witness: the device d1 was switched on by a push and then reported
\* offline: its flag is false and its params still carry the switch state.
C14_OfflineKeepsParams ==
    /\ "d1" \in DOMAIN data
    /\ deep_get(data["d1"], <<"itemData", "online">>, NoneV) = Bool(FALSE)
    /\ deep_get(data["d1"], <<"itemData", "params", "switch">>, NoneV) = Str("on")
    /\ read_log = <<"object", "object">>

\* the last operation was a merge into origin_dict
Merged == adapter_out.op = "merge"

\* C15: merging the empty update into the tree, whatever merges came before,
\* leaves the tree as it was.
C15_EmptyMergeIsIdentity ==
    [][(adapter_out'.op = "merge" /\ adapter_out'.arg = EmptyMap)
          => origin_dict' = origin_dict]_vars

\* C15 witness: the empty update was merged into a tree with a nested map.
C15_EmptyMergedIntoNestedTree ==
    /\ Merged /\ adapter_out.arg = EmptyMap
    /\ \E k \in DOMAIN origin_dict.m :
           IsMap(origin_dict.m[k]) /\ DOMAIN origin_dict.m[k].m # {}

\* C16: after an update was merged into the tree, merging the same update
\* again yields the same tree.
C16_MergeIdempotent ==
    Merged => merge(origin_dict.m, adapter_out.arg.m) = origin_dict.m

\* C16 witness: an update with a nested map was merged into a tree that had
\* other keys at both levels.
C16_NestedUpdateMerged ==
    /\ Merged
    /\ \E k \in DOMAIN adapter_out.arg.m :
           /\ IsMap(adapter_out.arg.m[k])
           /\ DOMAIN adapter_out.arg.m[k].m # {}
           /\ DOMAIN origin_dict.m[k].m # DOMAIN adapter_out.arg.m[k].m
    /\ DOMAIN origin_dict.m # DOMAIN adapter_out.arg.m

\* the key paths of a tree, at every depth
RECURSIVE Paths(_)
Paths(m) ==
    UNION {{<<k>>} \cup (IF IsMap(m[k])
                          THEN {<<k>> \o q : q \in Paths(m[k].m)}
                          ELSE {}) : k \in DOMAIN m}

\* the value under a key path
At(m, path) == deep_get(Map(m), path, NoneV)

\* the key path lies under a key that the update binds to a value that is
\* not a map
Replaced(path, source) ==
    \E n \in 1..(Len(path) - 1) :
        /\ SubSeq(path, 1, n) \in Paths(source)
        /\ ~IsMap(At(source, SubSeq(path, 1, n)))

\* C17 as claimed: every key path of the tree that does not occur in the
\* update is in the merged tree, with the value it had.
C17_KeysAbsentFromUpdateKept ==
    [][adapter_out'.op = "merge"
          => \A path \in Paths(origin_dict.m) :
                path \notin Paths(adapter_out'.arg.m)
                => /\ path \in Paths(origin_dict'.m)
                   /\ At(origin_dict'.m, path) = At(origin_dict.m, path)]_vars

\* C17 amended: every key path of the tree that does not occur in the update
\* and does not lie under a key that the update binds to a non-map value is
\* in the merged tree, with the value it had.
C17_KeysKeptUnlessMapReplaced ==
    [][adapter_out'.op = "merge"
          => \A path \in Paths(origin_dict.m) :
                (path \notin Paths(adapter_out'.arg.m)
                    /\ ~Replaced(path, adapter_out'.arg.m))
                => /\ path \in Paths(origin_dict'.m)
                   /\ At(origin_dict'.m, path) = At(origin_dict.m, path)]_vars

\* C17 witness: an update with a nested map was merged and a key of the tree
\* next to the nested keys it carries is still there.
C17_SiblingKeyKept ==
    /\ Merged
    /\ IsMap(At(adapter_out.arg.m, <<"a">>))
    /\ <<"a", "a">> \in Paths(adapter_out.arg.m)
    /\ <<"a", "b">> \notin Paths(adapter_out.arg.m)
    /\ <<"a", "b">> \in Paths(origin_dict.m)

\* one record of the relay array
Relay(state, outlet) == Map([switch |-> Str(state), outlet |-> Num(outlet)])

\* C18: for the 4-relay family the payload of set-switch(true) is the array
\* of the four outlets 0..3 with outlet 0 "on" and outlets 1, 2, 3 "off", and
\* the payload of set-switch(false) is the same array with all four "off".
C18_FourRelayPayload ==
    (adapter_out.op = "gen_control_switch_params"
        /\ adapter_out.uiid \in MULTIPLE_SINGLE_PROTOCOL_UIIDS)
    => adapter_out.value =
          Map([switches |-> List(<<
              Relay(IF adapter_out.arg = Bool(TRUE) THEN "on" ELSE "off", 0),
              Relay("off", 1), Relay("off", 2), Relay("off", 3)>>)])

\* C18 witness: set-switch(true) was translated for family 191.
C18_SwitchOnForFamily191 ==
    /\ adapter_out.op = "gen_control_switch_params"
    /\ adapter_out.uiid = 191
    /\ adapter_out.arg = Bool(TRUE)
    /\ Len(adapter_out.value.m["switches"].l) = RelayCount

\* C19: every resolve returns an adapter without failing, of the class
\* registered for the family id or of the base class when none is; a resolve
\* of an id that was resolved before returns the adapter returned then,
\* which builds the same payloads, whatever ids were resolved in between.
C19_ResolveNeverFails ==
    [][\A u \in FamilyIds :
          (adapter_out'.op = "get_uiid_instance" /\ adapter_out'.uiid = u)
          => /\ adapter_out'.raised = "none"
             /\ adapter_out'.value.class =
                    (IF u \in DOMAIN uiid_dict THEN uiid_dict[u] ELSE "Uiid")
             /\ u \in DOMAIN uiid_instance_dict
                    => adapter_out'.value = uiid_instance_dict[u]
             /\ \A b \in BOOLEAN :
                    gen_control_switch_params(adapter_out'.value, b)
                        = gen_control_switch_params(NewInstance(u), b)
             /\ \A v \in DOMAIN uiid_instance_dict :
                    uiid_instance_dict'[v] = uiid_instance_dict[v]]_vars

\* C19 witness: an unknown family id was resolved to the base adapter after
\* registered families had been resolved.
C19_UnknownFamilyResolved ==
    /\ adapter_out.op = "get_uiid_instance"
    /\ adapter_out.uiid = 2
    /\ adapter_out.value.class = "Uiid"
    /\ {174, 191} \subseteq DOMAIN uiid_instance_dict

\* C20: a reader of the base adapter applied to a device whose params lack
\* the reader's field returns None and raises nothing.
C20_MissingFieldReadsNone ==
    (adapter_out.op \in Readers
        /\ ~Has(adapter_out.arg, ReaderField[adapter_out.op]))
    => adapter_out.value = NoneV /\ adapter_out.raised = "none"

\* the distance of two integers
Dist(a, b) == IF a < b THEN b - a ELSE a - b

\* the params under the light type of a light's params
LightFields(params) == params.m[get_ltype(NewDevice("d1", 104, params)).s].m

\* C21: for every native brightness in 1..100 and every native colour
\* temperature in 0..255, the payload built from the external value the
\* device reads as (1..255 brightness, kelvin) carries a native value within
\* one unit of the value the device reported
C21_RoundTripWithinOneUnit ==
    /\ adapter_out.op = "gen_control_brightness_params"
        => Dist(LightFields(adapter_out.value).br.n,
                LightFields(adapter_out.arg).br.n) <= 1
    /\ adapter_out.op = "gen_control_color_temp_params"
        => Dist(adapter_out.value.m.white.m.ct.n,
                LightFields(adapter_out.arg).ct.n) <= 1

\* C21 witness: the brightness 37 of a colour light has made the round trip
C21_RoundTripOfBrightness37 ==
    /\ adapter_out.op = "gen_control_brightness_params"
    /\ Has(adapter_out.arg, "color")
    /\ adapter_out.arg.m.color.m.br = Num(37)
    /\ adapter_out.value.m.color.m.br = Num(37)

\* C22: a refresh in which the family request or the request for the things
\* of a family was answered with 401 or 403 ends with the reauthentication
\* signal, never with a result and never with the generic update failure
C22_AuthFailurePropagates ==
    (api.family.error \in {401, 403}
        \/ \E f \in DOMAIN api.things : api.things[f].error \in {401, 403})
    => api.outcome = "ConfigEntryAuthFailed"

\* C23: a frame whose sequence matches a pending request is delivered to the
\* waiter and not processed further: handling it leaves the device state map
\* as it was, whatever action, device id and params the frame carries
C23_MatchedFrameNotMerged ==
    [][\A f \in CmdFrames(IssuedSeqs) :
          (f.sequence \in DOMAIN pending_responses /\ HandleFrame(f))
          => data' = data]_vars

\* C24: handling a frame resolves, with the frame, every request that waits
\* under the frame's sequence, and leaves every other waiting request as it
\* was
C24_FrameResolvesItsRequest ==
    [][\A f \in CmdFrames(IssuedSeqs) :
          (f.text = "object" /\ HandleFrame(f))
          => \A c \in Calls :
                Waiting(c)
                => IF call[c].sequence = f.sequence
                   THEN call'[c].fut = "result" /\ call'[c].reply = f
                   ELSE call'[c] = call[c]]_vars

\* C25: once a control_device call has ended, in whatever way, the table of
\* pending requests no longer holds the entry the call registered
C25_NoEntryAfterTheCall ==
    \A c \in Calls :
        call[c].pc = "done"
        => ~(call[c].sequence \in DOMAIN pending_responses
                /\ pending_responses[call[c].sequence] = c)

\* C26: a socket drop, the end of a session, a stop, the cancellation of the
\* task and the end of a backoff wait leave the table of pending requests
\* and every call as they were; a call that waits for its reply ends only
\* with the ack of a reply that bears its sequence or with the 408 ack that
\* bears its sequence
C26_DisconnectKeepsPending ==
    [][/\ (SocketDrop \/ (\E kind \in SessionEnds : SessionEnd(kind)) \/ Stop
              \/ TaskCancelled \/ BackoffDone)
          => UNCHANGED <<pending_responses, call>>
       /\ \A c \in Calls :
             (call[c].pc \in {"waiting", "expired"} /\ call'[c].pc = "done")
             => \/ call'[c].result = TimeoutAck(c)
                \/ /\ call[c].fut = "result"
                   /\ call[c].reply.sequence = call[c].sequence
                   /\ call'[c].result = ReplyAck(c)]_vars

\* C26 witness: the session of a waiting call has ended, the task waits in
\* backoff, and the call has ended with the 408 ack
C26_TimedOutDuringBackoff ==
    /\ hass_task = "backoff"
    /\ \E c \in Calls : call[c].pc = "done" /\ call[c].result = TimeoutAck(c)

\* C27: handling the key press of a button-capable device with a
\* subscription on (device, outlet) calls the subscription while the store
\* still holds the device as it was before the push, then merges the params
\* of the push; both are done when the handler returns, the task being back
\* in the read loop for the next frame
C27_InvokedBeforeMerged ==
    [][\A f \in ButtonFrames :
          (SubscribedPress(f) /\ HandleFrame(f))
          => /\ Len(invoked') = 1
             /\ invoked'[1].seen = data[f.deviceid]
             /\ data'[f.deviceid].m.itemData.m.params =
                    Map(Overwrite(data[f.deviceid].m.itemData.m.params.m,
                                  f.params.m))
             /\ hass_task' = "reading"]_vars

\* C27 witness: the subscription of (d2, 2) was called while d2 had no
\* params, and the store now holds the outlet and the key of the press
C27_PressSeenBeforeItsMerge ==
    /\ Len(invoked) = 1
    /\ invoked[1].handler = <<"event", "d2", 2>>
    /\ invoked[1].seen = NewDevice("d2", UiidButton, EmptyMap)
    /\ "d2" \in DOMAIN data
    /\ data["d2"] = NewDevice("d2", UiidButton, ButtonParams(2, 7))

\* C28: when the read loop has handled a state push for a known device, the
\* params of the device hold, under every key of the push, the value the
\* push carried: the stored value of a key is that of the last push received
\* with the key
C28_LastPushWins ==
    [][\A f \in StoreFrames(IssuedSeqs) :
          (f.text = "object" /\ f.action = "update" /\ f.params # NoneV
              /\ f.deviceid \in DOMAIN data /\ HandleFrame(f))
          => \A k \in DOMAIN f.params.m :
                LET stored == data'[f.deviceid].m.itemData.m.params IN
                Has(stored, k) /\ stored.m[k] = f.params.m[k]]_vars

\* C29: merging P into S gives the tree with the keys of both in which every
\* key of P holds the merge of the two values when both are maps and the
\* value of P otherwise (a scalar, a list, a map over a non-map, a non-map
\* over a map, a key S did not have), and every other key holds the value of
\* S; one level down the merge of two maps of leaves is P's leaves written
\* over S's
C29_MergeMatchesItsDefinition ==
    [][adapter_out'.op = "merge"
          => LET S == origin_dict.m
                 P == adapter_out'.arg.m
                 R == origin_dict'.m
             IN /\ DOMAIN R = DOMAIN S \cup DOMAIN P
                /\ \A k \in DOMAIN P :
                      IF k \in DOMAIN S /\ IsMap(S[k]) /\ IsMap(P[k])
                      THEN R[k] = Map(Overwrite(S[k].m, P[k].m))
                      ELSE R[k] = P[k]
                /\ \A k \in DOMAIN S \ DOMAIN P : R[k] = S[k]]_vars

\* C29 witness: a merge whose update held a map for a key that held a map
\* (merged key by key) and a list for another key
C29_MapMergedAndListWritten ==
    /\ Merged
    /\ adapter_out.arg =
           Map([a |-> Map([b |-> Num(1)]), b |-> List(<<Str("on")>>)])
    /\ origin_dict =
           Map([a |-> Map([a |-> List(<<Str("on")>>), b |-> Num(1)]),
                b |-> List(<<Str("on")>>)])

\* the step in which the facade merges the payload P of a command for d1
\* that was acknowledged with error 0
FacadeMerge(P) ==
    \E c \in Calls :
        /\ call[c].pc # "done" /\ call'[c].pc = "done"
        /\ call[c].device = "d1" /\ call[c].params = P
        /\ call'[c].result.kind = "ack" /\ call'[c].result.error = 0

\* the step in which the read loop merges a state push with the params P for
\* d1
PushMerge(P) ==
    /\ "d1" \in DOMAIN data
    /\ HandleFrame(Frame("object", NoSeq, "update", "d1", P, NoError))

\* C30: the optimistic merge of a sent payload and the merge of a state push
\* with the same field values change the device state alike, to the state
\* with those values written over the params of the device, and merging the
\* same values once more leaves that state as it is; in either order, once
\* or twice, the device state is the same
C30_FacadeAndPushConverge ==
    [][\A P \in CommandParams :
          (FacadeMerge(P) \/ PushMerge(P))
          => /\ data' = [data EXCEPT !["d1"].m.itemData.m.params =
                            Map(Overwrite(@.m, P.m))]
             /\ update_entity_state(data', event_handler_map', last_event',
                                    "d1", P).data = data']_vars

\* C30 witness: the command that switches d1 on has been acknowledged with
\* error 0 and merged, a second frame has been handled, d1 is on
C30_CommandMergedAndFrameHandled ==
    /\ call[1].pc = "done"
    /\ call[1].result.kind = "ack"
    /\ call[1].result.error = 0
    /\ Len(read_log) = 2
    /\ data["d1"].m.itemData.m.params = SwitchParams("on")

(* ---------------------------------------------------------------------- *)
(* The store under pushes, acks and connection changes                     *)
(* ---------------------------------------------------------------------- *)
\* the frames of a session that reach the store: replies to the command,
\* state pushes and availability pushes, for known and unknown devices
SessionFrames(seqs) == AckFrames(seqs) \cup PushFrames({}) \cup SysFrames

\* the connection cycle, one command and the pushes, with the snapshots of
\* each store operation recorded and the clock standing still
InitPush ==
    /\ Constructed
    /\ delay_bound = CmdDelayBound
    /\ read_bound = 0
    /\ publish_bound = PublishLogBound
    /\ origin_dict = EmptyMap

NextPush ==
    \/ Start
    \/ TaskBegin
    \/ ResolveOk
    \/ ConnectOk
    \/ \E kind \in ConnectFailures : ConnectFail(kind)
    \/ AnnounceOk
    \/ SocketDrop
    \/ \E kind \in SessionEnds : SessionEnd(kind)
    \/ BackoffDone
    \/ Stop
    \/ TaskCancelled
    \/ AsyncSetup
    \/ AddEventHandler("d2", 0)
    \/ \E params \in CommandParams : CallStart(1, "d1", params)
    \/ CallSendOk(1)
    \/ CallSendFail(1)
    \/ CallReturn(1)
    \/ \E f \in SessionFrames(IssuedSeqs) : HandleFrame(f)

SpecPush == InitPush /\ [][NextPush]_vars

\* the step in which the read loop applies the push f to a device of the
\* store: the handler of its action tag runs to its end
AppliedPush(f) ==
    /\ f.action \in {"update", "sysmsg"}
    /\ f.deviceid \in DOMAIN data
    /\ ~Dispatch(f).raised
    /\ HandleFrame(f)

\* the snapshot holds what the push f reports for its device
Includes(snapshot, f) ==
    LET item == snapshot[f.deviceid].m.itemData.m IN
    IF f.action = "sysmsg" THEN item.online = f.params.m.online
    ELSE \A k \in DOMAIN f.params.m : item.params.m[k] = f.params.m[k]

\* C31: every state push and every availability push that is applied to a
\* known device publishes exactly one snapshot, the store as it is after
\* the merge, so the snapshot already holds what the push reports
C31_PushPublishedOnceAfterMerge ==
    [][\A f \in SessionFrames(IssuedSeqs) :
          AppliedPush(f) => /\ published' = <<data'>>
                            /\ Includes(published'[1], f)]_vars

\* C31 witness: with no command issued, the push that switches d1 on has
\* been applied in the read loop and its one snapshot shows d1 on
C31_PushOfD1Published ==
    /\ hass_task = "reading"
    /\ call[1].pc = "idle"
    /\ published = <<data>>
    /\ data["d1"].m.itemData.m.params = SwitchParams("on")

\* C32: the family identifier (uiid) of every device entry is the one the
\* entry was created with, whatever pushes, acks and optimistic merges have
\* been applied to it
C32_FamilyIdentifierFixed ==
    \A d \in DOMAIN data :
        /\ get_device_uiid(data[d]) # NoneV
        /\ get_device_uiid(data[d]) = get_device_uiid(Inventory[d])

\* C32 witness: d1 has been switched on by the acknowledged command and
\* reported offline by an availability push, d2 has had a key press merged
C32_EveryKindOfMergeApplied ==
    /\ call[1].pc = "done"
    /\ call[1].result.kind = "ack"
    /\ call[1].result.error = 0
    /\ data["d1"].m.itemData.m.params = SwitchParams("on")
    /\ data["d1"].m.itemData.m.online = Bool(FALSE)
    /\ data["d2"].m.itemData.m.params = ButtonParams(0, 1)

\* what the connection manager keeps about the connection
ConnState ==
    <<hass_task, stop_event, cancel_requested, is_connected, ws,
      reconnect_delay_time, last_wait>>

\* the step in which a command acknowledged with error 0 returns to its
\* caller through the optimistic merge
AckedReturn(c) ==
    /\ call[c].pc # "done"
    /\ call'[c].pc = "done"
    /\ call'[c].result.kind = "ack"
    /\ call'[c].result.error = 0

\* C33: no step that changes the state of the connection (disconnect,
\* backoff, reconnect, stop, cancellation) changes the device state map, and
\* once the map is filled every step that changes it is an applied push of
\* the read loop or the return of a command acknowledged with error 0
C33_ConnectionStepsKeepDevices ==
    [][/\ ConnState' # ConnState => data' = data
       /\ (data # <<>> /\ data' # data)
             => \/ \E f \in SessionFrames(IssuedSeqs) : AppliedPush(f)
                \/ \E c \in Calls : AckedReturn(c)]_vars

\* C33 witness: d1 was switched on and reported offline, then the session
\* ended and the task waits in backoff with the map as the pushes left it
C33_DevicesKeptAcrossBackoff ==
    /\ hass_task = "backoff"
    /\ is_connected = FALSE
    /\ data # <<>>
    /\ data["d1"].m.itemData.m.params = SwitchParams("on")
    /\ data["d1"].m.itemData.m.online = Bool(FALSE)
    /\ data["d2"].m.itemData.m.online = Bool(TRUE)

\* C34: once stop has been requested, in whatever position the task is
\* (not started, endpoint lookup, handshake, announce, read loop, backoff),
\* the task eventually is not running any more and from then on the stop
\* request stands and the task never runs again
C34_StopTerminates ==
    stop_event ~> [](stop_event /\ hass_task \notin LiveTask)

\* C34 witness: stop was requested while the task was inside a session, the
\* task has ended with the cancellation and its socket is closed
C34_CancelledInsideSession ==
    /\ stop_event
    /\ hass_task = "cancelled"
    /\ cycle_connected
    /\ ws = "closed"
    /\ stop_call = <<"returned">>

\* the frame is a key press of a known device for which no subscription is
\* registered
UnsubscribedPress(f) ==
    /\ f.action = "update"
    /\ f.deviceid \in DOMAIN data
    /\ f.params # NoneV
    /\ IsNumber(deep_get(f.params, <<"key">>, NoneV))
    /\ gen_event_callback_key(f.deviceid,
                              deep_get(f.params, <<"outlet">>, Num(0)).n)
          \notin event_handler_map

\* C35: handling an inbound frame never ends the read loop; a key press of
\* an event-capable device without a subscription invokes no callback, is
\* merged into the store all the same and leaves the connection Connected
C35_FrameNeverEndsReadLoop ==
    [][\A f \in SessionFrames(IssuedSeqs) :
          HandleFrame(f)
          => /\ hass_task' = "reading"
             /\ UnsubscribedPress(f) => /\ invoked' = <<>>
                                        /\ Includes(data', f)
                                        /\ is_connected'
                                        /\ ws' = "open"]_vars

\* C36: the connected flag is true only while the task is inside a session,
\* between the successful connect and the end of the read loop; in every
\* other position of the task (not started, endpoint lookup, handshake,
\* backoff, finished, cancelled, failed) it is false
C36_FlagOnlyInsideSession ==
    is_connected => hass_task \in InSession

\* C37: stop() completes normally whatever the condition of the task (never
\* started, running, already cancelled by an earlier stop, already ended by
\* an error raised inside the loop): no call of stop() ends with an
\* exception, and a further stop() of a task that has ended changes nothing
\* of the connection
C37_StopAlwaysReturns ==
    /\ \A i \in DOMAIN stop_call : stop_call[i] # "raised"
    /\ (Len(stop_call) > 1 /\ hass_task \notin LiveTask) => ~cancel_requested

\* the step in which the read loop handles a push that names a device the
\* store does not hold
UnknownPush(f) ==
    /\ f.action \in {"update", "sysmsg"}
    /\ f.deviceid \notin DOMAIN data
    /\ HandleFrame(f)

\* C38: a state push or availability push that names an unknown device
\* creates no entry, changes no device, invokes no subscription, publishes
\* no snapshot and leaves the read loop running; no step removes a device
\* entry from the store
C38_UnknownDevicePushIgnored ==
    [][/\ \A f \in SessionFrames(IssuedSeqs) :
             UnknownPush(f) => /\ data' = data
                               /\ last_event' = last_event
                               /\ invoked' = <<>>
                               /\ published' = <<>>
                               /\ hass_task' = "reading"
       /\ DOMAIN data \subseteq DOMAIN data']_vars

\* C38 witness: with no command issued, the push that switched d1 on was
\* published and the next frame, a push for the unknown device, published
\* nothing and left the store and the read loop as they were
C38_UnknownPushAfterKnownPush ==
    /\ hass_task = "reading"
    /\ call[1].pc = "idle"
    /\ data # <<>>
    /\ UnknownDev \notin DOMAIN data
    /\ data["d1"].m.itemData.m.params = SwitchParams("on")
    /\ published = <<>>
    /\ invoked = <<>>

\* C39: for every family (flat switch, the 4-relay family, the default
\* adapter), whatever the params of the device were before, once the payload
\* of set-switch(b) has been merged into the device get-switch returns b
C39_SetThenGetSwitchRoundTrips ==
    adapter_out.op = "get_switch_value"
        => adapter_out.value = adapter_out.arg.m.is_on

\* C39 witness: the 4-relay family's device had every relay on, the payload
\* of set-switch(off) was merged into it and get-switch read the switch back
C39_RelayDeviceSwitchedOff ==
    /\ adapter_out.op = "get_switch_value"
    /\ adapter_out.uiid \in MULTIPLE_SINGLE_PROTOCOL_UIIDS
    /\ adapter_out.arg.m.is_on = Bool(FALSE)
    /\ Has(adapter_out.arg.m.before, "switches")
    /\ adapter_out.arg.m.before.m.switches.t = "list"
    /\ adapter_out.value = Bool(FALSE)

====
